---- MODULE Spec2Model ----
(***************************************************************************)
(* The layout resolver of rsmlc: the style values and their priority       *)
(* merge, Length formatting, the construction of the render tree, the      *)
(* three size passes and the position pass of RenderTree::calculate, as    *)
(* whole passes and call by call with the borrows of the node cells.       *)
(*                                                                         *)
(* Lengths are u32 millimetres.  TLC's integers end at 2^31 - 1, so every  *)
(* length the model draws is below 2^31; where the code's saturating       *)
(* arithmetic can reach the u32 ceiling from such operands the operator    *)
(* says how it is computed.                                                *)
(***************************************************************************)
EXTENDS Integers, Sequences, FiniteSets, TLC

VARIABLES
    elements,         \* the element tree handed to RenderTree::new
    nodes,            \* the render tree: type, tag, text, specified style, links
    computed_size,    \* computed_style.size of every node
    absolute_pos,     \* attr.absolute_pos of every node
    flex_child_space, \* attr.flex_child_space of every node
    pc,               \* where RenderTree::calculate stands
    result,           \* what calculate() returned
    call,             \* a call of one of the pure functions: its name and arguments
    ret,              \* the values that call has returned so far
    stack,            \* the calls of the recursive passes that have not returned
    borrows           \* the borrow state of every node's RefCell

vars == <<elements, nodes, computed_size, absolute_pos, flex_child_space, pc, result, call, ret,
          stack, borrows>>
layout_vars == <<elements, nodes, computed_size, absolute_pos, flex_child_space, pc, result,
                 stack, borrows>>
fn_vars == <<call, ret>>

(***************************************************************************)
(* Bounds of the model                                                     *)
(***************************************************************************)
MaxKids == 2       \* children of the container under body
MaxSizes == 4      \* children handed to calculate_positions_on_axis
MaxMerges == 2     \* successive assign_priority calls on one slot

(***************************************************************************)
(* base.rs: Length and Percentage                                          *)
(***************************************************************************)
MM_PER_CM == 10
MM_PER_M == 1000
PERCENT_DIV == 100
U16_MAX == 65535

from_mm(mm) == mm
from_cm(cm) == cm * MM_PER_CM
from_m(m) == m * MM_PER_M

\* u32 saturating_add.  Two operands below 2^31 never reach the ceiling 2^32 - 1.
LenAdd(a, b) == a + b

\* u32 saturating_sub
LenSub(a, b) == IF a > b THEN a - b ELSE 0

LenMax(a, b) == IF a >= b THEN a ELSE b

\* floor((2^32 - 1) / k) for k >= 2, by long division over the two 16-bit halves
\* of u32::MAX
U32MaxDiv(k) ==
    LET base == U16_MAX + 1
        q1 == U16_MAX \div k
        r1 == U16_MAX % k
    IN q1 * base + (r1 * base + U16_MAX) \div k

\* (len * k) / d in Length arithmetic: saturating_mul, then integer division
\* (d = 0 gives 0).  The product is never formed: it saturates exactly when
\* len > floor(u32::MAX / k), and below that floor(len * k / d) is taken
\* through len = d * a + b.
LenMulDiv(len, k, d) ==
    IF d = 0 THEN 0
    ELSE IF k >= 2 /\ len > U32MaxDiv(k) THEN U32MaxDiv(d)
    ELSE (len \div d) * k + ((len % d) * k) \div d

(***************************************************************************)
(* base.rs: Length over the whole range of u32.  A number is the sequence   *)
(* of its limbs, least significant first; a u32 has four.                   *)
(***************************************************************************)
U32_BITS == 32
LimbBase == 2^(U32_BITS \div 4)

\* the u32 of an integer below 2^31
Word(n) == [i \in 1..4 |-> (n \div LimbBase^(i - 1)) % LimbBase]
U32_MAX == [i \in 1..4 |-> LimbBase - 1]

LimbAt(a, i) == IF i <= Len(a) THEN a[i] ELSE 0

RECURSIVE NatAdd(_, _, _, _)
\* the limbs from the i-th on of a + b + carry, with the carry out as last limb
NatAdd(a, b, i, carry) ==
    IF i > Len(a) /\ i > Len(b) THEN <<carry>>
    ELSE LET t == LimbAt(a, i) + LimbAt(b, i) + carry
         IN <<t % LimbBase>> \o NatAdd(a, b, i + 1, t \div LimbBase)

\* a < b
NatLess(a, b) ==
    LET differing == {i \in 1..(Len(a) + Len(b)) : LimbAt(a, i) # LimbAt(b, i)}
    IN /\ differing # {}
       /\ LET top == CHOOSE i \in differing : \A j \in differing : j <= i
          IN LimbAt(a, top) < LimbAt(b, top)

RECURSIVE NatSub(_, _, _, _)
\* the limbs from the i-th on of a - b - borrow, for a >= b
NatSub(a, b, i, borrow) ==
    IF i > Len(a) THEN <<>>
    ELSE LET t == LimbAt(a, i) - LimbAt(b, i) - borrow
         IN <<(t + LimbBase) % LimbBase>> \o NatSub(a, b, i + 1, IF t < 0 THEN 1 ELSE 0)

RECURSIVE NatMulLimb(_, _, _, _)
\* the limbs from the i-th on of a * d + carry, d one limb
NatMulLimb(a, d, i, carry) ==
    IF i > Len(a) THEN <<carry>>
    ELSE LET t == LimbAt(a, i) * d + carry
         IN <<t % LimbBase>> \o NatMulLimb(a, d, i + 1, t \div LimbBase)

RECURSIVE NatMul(_, _)
\* a * b = a * b[1] + LimbBase * (a * the other limbs of b)
NatMul(a, b) ==
    IF b = <<>> THEN <<0>>
    ELSE NatAdd(NatMulLimb(a, b[1], 1, 0), <<0>> \o NatMul(a, Tail(b)), 1, 0)

RECURSIVE NatDivSmall(_, _, _, _)
\* the limbs up to the i-th of floor((rem * LimbBase^i + a mod LimbBase^i) / k),
\* for a divisor k that multiplied by LimbBase stays an integer of the checker
NatDivSmall(a, k, i, rem) ==
    IF i = 0 THEN <<>>
    ELSE LET cur == rem * LimbBase + a[i]
         IN NatDivSmall(a, k, i - 1, cur % k) \o <<cur \div k>>

\* the number fits a u32; its low four limbs
Fits32(a) == \A i \in 5..Len(a) : a[i] = 0
Low32(a) == [i \in 1..4 |-> LimbAt(a, i)]

\* the integer of a u32 below 2^23
SmallInt(k) == k[1] + LimbBase * k[2] + LimbBase * LimbBase * k[3]

\* u32::saturating_add with the wrapped sum in place of the bound
saturating_add_Wrapping(a, b) == Low32(NatAdd(a, b, 1, 0))

\* u32::saturating_add
saturating_add(a, b) ==
    IF Fits32(NatAdd(a, b, 1, 0)) THEN Low32(NatAdd(a, b, 1, 0)) ELSE U32_MAX

\* u32::saturating_sub
saturating_sub(a, b) == IF NatLess(a, b) THEN Word(0) ELSE Low32(NatSub(a, b, 1, 0))

\* u32::saturating_mul
saturating_mul(a, k) == IF Fits32(NatMul(a, k)) THEN Low32(NatMul(a, k)) ELSE U32_MAX

\* impl Div<u32> for Length
LengthDiv(a, scalar) ==
    IF scalar = Word(0) THEN Word(0) ELSE NatDivSmall(a, SmallInt(scalar), 4, 0)

RECURSIVE LengthSum(_, _)
\* impl Sum for Length: iter.fold(Length(0), |acc, x| acc + x)
LengthSum(items, acc) ==
    IF items = <<>> THEN acc ELSE LengthSum(Tail(items), saturating_add(acc, items[1]))

\* the operators of Length
LengthOperator(op, a, b) ==
    CASE op \in {"add", "add_assign"} -> saturating_add(a, b)
      [] op = "sub" -> saturating_sub(a, b)
      [] op = "mul" -> saturating_mul(a, b)
      [] op = "div" -> LengthDiv(a, b)

(***************************************************************************)
(* Text: a string is a sequence of one-character strings                   *)
(***************************************************************************)
Digit == <<"0", "1", "2", "3", "4", "5", "6", "7", "8", "9">>

RECURSIVE Decimal(_)
\* write!(f, "{}", n) for an unsigned integer
Decimal(n) ==
    IF n < 10 THEN <<Digit[n + 1]>>
    ELSE Decimal(n \div 10) \o <<Digit[(n % 10) + 1]>>

IsDigit(ch) == \E i \in 1..10 : Digit[i] = ch
DigitValue(ch) == (CHOOSE i \in 1..10 : Digit[i] = ch) - 1

RECURSIVE ParseDecimal(_, _)
\* the value of a run of ASCII digits, most significant first
ParseDecimal(chars, acc) ==
    IF chars = <<>> THEN acc
    ELSE ParseDecimal(Tail(chars), acc * 10 + DigitValue(chars[1]))

\* a formatter whose centimetre branch drops the last digit of the count
LengthDisplay_ShortCm(mm) ==
    IF mm % MM_PER_M = 0 THEN Decimal(mm \div MM_PER_M) \o <<"m">>
    ELSE IF mm % MM_PER_CM = 0 THEN Decimal(mm \div (MM_PER_CM * MM_PER_CM)) \o <<"c", "m">>
    ELSE Decimal(mm) \o <<"m", "m">>

\* impl Display for Length: the largest unit that divides the millimetres
LengthDisplay(mm) ==
    IF mm % MM_PER_M = 0 THEN Decimal(mm \div MM_PER_M) \o <<"m">>
    ELSE IF mm % MM_PER_CM = 0 THEN Decimal(mm \div MM_PER_CM) \o <<"c", "m">>
    ELSE Decimal(mm) \o <<"m", "m">>

\* impl FromStr for Length, on text without sign, fraction or blanks: the digits
\* up to the first other character, times the unit's multiplier
LengthFromStr(s) ==
    LET stops == {i \in 1..Len(s) : ~IsDigit(s[i])}
        split_pos == IF stops = {} THEN Len(s) + 1
                     ELSE CHOOSE i \in stops : \A j \in stops : i <= j
        number_str == SubSeq(s, 1, split_pos - 1)
        unit_str == SubSeq(s, split_pos, Len(s))
    IN IF s = <<>> \/ number_str = <<>> THEN [ok |-> FALSE, mm |-> 0]
       ELSE IF unit_str = <<"m", "m">> \/ unit_str = <<>>
            THEN [ok |-> TRUE, mm |-> ParseDecimal(number_str, 0)]
       ELSE IF unit_str = <<"c", "m">>
            THEN [ok |-> TRUE, mm |-> ParseDecimal(number_str, 0) * MM_PER_CM]
       ELSE IF unit_str = <<"m">>
            THEN [ok |-> TRUE, mm |-> ParseDecimal(number_str, 0) * MM_PER_M]
       ELSE [ok |-> FALSE, mm |-> 0]

(***************************************************************************)
(* style/mod.rs: SizeValue and SpaceSize                                   *)
(***************************************************************************)
Length(mm) == [tag |-> "Length", v |-> mm]
Percentage(p) == [tag |-> "Percentage", v |-> p]
Auto == [tag |-> "Auto", v |-> 0]

is_length(sv) == sv.tag = "Length"

\* a merge without priority: whatever is not Auto replaces the slot
assign_priority_NoPriority(self, other) ==
    IF other.tag # "Auto" THEN other ELSE self

\* SizeValue::assign_priority: length > percentage > auto
assign_priority(self, other) ==
    IF other.tag = "Length" THEN other
    ELSE IF other.tag = "Percentage" /\ self.tag # "Length" THEN other
    ELSE self

\* SizeValue::add
SizeValueAdd(self, other) ==
    IF self.tag = "Length" /\ other.tag = "Length" THEN Length(LenAdd(self.v, other.v))
    ELSE self

\* SizeValue::max
SizeValueMax(self, other) ==
    IF self.tag = "Length" /\ other.tag = "Length" THEN Length(LenMax(self.v, other.v))
    ELSE self

Axes == {"x", "y", "z"}

SpaceSize(x, y, z) == [x |-> x, y |-> y, z |-> z]
SpaceSizeDefault == SpaceSize(Auto, Auto, Auto)
Dim3(x, y, z) == [x |-> x, y |-> y, z |-> z]

from_dim3_length(dim3) == SpaceSize(Length(dim3.x), Length(dim3.y), Length(dim3.z))

\* SpaceSize::assign_priority
space_assign_priority(self, other) ==
    [a \in Axes |-> assign_priority(self[a], other[a])]

has_auto(size) == \E a \in Axes : size[a] = Auto
all_length(size) == \A a \in Axes : is_length(size[a])

create_self_by_auto_to_zero(size) ==
    [a \in Axes |-> IF size[a] = Auto THEN Length(from_cm(0)) ELSE size[a]]

\* SpaceSize::get_length: Some(Dim3) when every axis is a Length
get_length(size) ==
    IF all_length(size)
    THEN [some |-> TRUE, dim |-> Dim3(size.x.v, size.y.v, size.z.v)]
    ELSE [some |-> FALSE, dim |-> Dim3(0, 0, 0)]

\* RenderTree::calculate_dimension_size
calculate_dimension_size(size_value, parent_size_value) ==
    IF size_value.tag = "Length" THEN Length(size_value.v)
    ELSE IF size_value.tag = "Percentage"
         THEN IF parent_size_value.tag = "Length"
              THEN Length(LenMulDiv(parent_size_value.v, size_value.v, PERCENT_DIV))
              ELSE Auto
    ELSE Auto

(***************************************************************************)
(* f64 arithmetic of the position pass.  A finite f64 is held exactly: sign, *)
(* integer part, and 78 fraction bits in three 26-bit limbs (f[1] the most *)
(* significant).  Every operation rounds to nearest, ties to even, at 53    *)
(* significant bits, as IEEE 754 binary64 does.                            *)
(***************************************************************************)
F64_MANTISSA_DIGITS == 53
LimbBits == F64_MANTISSA_DIGITS \div 2
FracBits == 3 * LimbBits
Limb == 2 ^ LimbBits

BitLen(n) ==
    IF n >= 2 ^ 30 THEN 31
    ELSE CHOOSE k \in 0..30 : n < 2 ^ k /\ (k = 0 \/ n >= 2 ^ (k - 1))

\* `as f64` of a u32 (or of a difference of two)
F64FromInt(i) == [neg |-> i < 0, int |-> IF i < 0 THEN -i ELSE i, f |-> <<0, 0, 0>>]

\* bit i (1 = most significant) of the fraction limbs
FracBit(f, i) ==
    (f[((i - 1) \div LimbBits) + 1] \div (2 ^ (LimbBits - 1 - ((i - 1) % LimbBits)))) % 2

\* some bit of the fraction below bit i is set
FracBelow(f, i) ==
    LET l == ((i - 1) \div LimbBits) + 1
        w == 2 ^ (LimbBits - 1 - ((i - 1) % LimbBits))
    IN f[l] % w # 0 \/ \E j \in (l + 1)..3 : f[j] # 0

\* the fraction cut after bit k
FracCut(f, k) ==
    LET l == ((k - 1) \div LimbBits) + 1
        w == 2 ^ (LimbBits - 1 - ((k - 1) % LimbBits))
    IN [j \in 1..3 |-> IF j < l THEN f[j] ELSE IF j = l THEN f[j] - (f[j] % w) ELSE 0]

\* int.f plus one unit of fraction bit k
FracInc(int, f, k) ==
    LET l == ((k - 1) \div LimbBits) + 1
        w == 2 ^ (LimbBits - 1 - ((k - 1) % LimbBits))
        s3 == f[3] + (IF l = 3 THEN w ELSE 0)
        s2 == f[2] + (IF l = 2 THEN w ELSE 0) + s3 \div Limb
        s1 == f[1] + (IF l = 1 THEN w ELSE 0) + s2 \div Limb
    IN [int |-> int + s1 \div Limb, f |-> <<s1 % Limb, s2 % Limb, s3 % Limb>>]

FracLeadZeros(f) ==
    IF f[1] > 0 THEN LimbBits - BitLen(f[1])
    ELSE IF f[2] > 0 THEN 2 * LimbBits - BitLen(f[2])
    ELSE 3 * LimbBits - BitLen(f[3])

\* the f64 nearest to the exact value int.f (sticky: the exact value has set bits
\* below the 78 held)
F64Round(neg, int, f, sticky) ==
    LET keep == IF int > 0 THEN F64_MANTISSA_DIGITS - BitLen(int)
                ELSE FracLeadZeros(f) + F64_MANTISSA_DIGITS
    IN IF keep >= FracBits
       THEN [neg |-> neg /\ (int > 0 \/ f # <<0, 0, 0>>), int |-> int, f |-> f]
       ELSE LET guard == FracBit(f, keep + 1)
                below == sticky \/ FracBelow(f, keep + 1)
                lastbit == FracBit(f, keep)
                kept == FracCut(f, keep)
                inc == FracInc(int, kept, keep)
            IN IF guard = 1 /\ (below \/ lastbit = 1)
               THEN [neg |-> neg, int |-> inc.int, f |-> inc.f]
               ELSE [neg |-> neg /\ (int > 0 \/ kept # <<0, 0, 0>>), int |-> int, f |-> kept]

\* x / m as f64, for an integer-valued x and an integer m with 0 < m < 32
F64DivInt(x, m) ==
    LET q == x.int \div m
        r0 == x.int % m
        f1 == (r0 * Limb) \div m
        r1 == (r0 * Limb) % m
        f2 == (r1 * Limb) \div m
        r2 == (r1 * Limb) % m
        f3 == (r2 * Limb) \div m
        r3 == (r2 * Limb) % m
    IN F64Round(x.neg, q, <<f1, f2, f3>>, r3 # 0)

\* x / 2.0 (exact)
F64Half(x) ==
    LET h == Limb \div 2
    IN [neg |-> x.neg, int |-> x.int \div 2,
        f |-> <<(x.int % 2) * h + x.f[1] \div 2,
                (x.f[1] % 2) * h + x.f[2] \div 2,
                (x.f[2] % 2) * h + x.f[3] \div 2>>]

F64MagLess(x, y) ==
    \/ x.int < y.int
    \/ x.int = y.int /\ x.f[1] < y.f[1]
    \/ x.int = y.int /\ x.f[1] = y.f[1] /\ x.f[2] < y.f[2]
    \/ x.int = y.int /\ x.f[1] = y.f[1] /\ x.f[2] = y.f[2] /\ x.f[3] < y.f[3]

\* x + y as f64
F64Add(x, y) ==
    IF x.neg = y.neg
    THEN LET s3 == x.f[3] + y.f[3]
             s2 == x.f[2] + y.f[2] + s3 \div Limb
             s1 == x.f[1] + y.f[1] + s2 \div Limb
         IN F64Round(x.neg, x.int + y.int + s1 \div Limb,
                     <<s1 % Limb, s2 % Limb, s3 % Limb>>, FALSE)
    ELSE LET big == IF F64MagLess(x, y) THEN y ELSE x
             small == IF F64MagLess(x, y) THEN x ELSE y
             d3 == big.f[3] - small.f[3]
             d2 == big.f[2] - small.f[2] - (IF d3 < 0 THEN 1 ELSE 0)
             d1 == big.f[1] - small.f[1] - (IF d2 < 0 THEN 1 ELSE 0)
         IN F64Round(big.neg, big.int - small.int - (IF d1 < 0 THEN 1 ELSE 0),
                     <<d1 % Limb, d2 % Limb, d3 % Limb>>, FALSE)

\* `as u32` of an f64: towards zero, negative values give 0
F64AsU32(x) == IF x.neg THEN 0 ELSE x.int

F64IsInt(x) == x.f = <<0, 0, 0>>

(***************************************************************************)
(* RenderTree::calculate_positions_on_axis                                  *)
(***************************************************************************)
JustifyContent == {"FlexStart", "FlexEnd", "Center", "SpaceBetween", "SpaceAround", "SpaceEvenly"}

RECURSIVE PushPacked(_, _)
\* for &size in child_sizes { positions.push(pos); pos += size; }
PushPacked(pos, child_sizes) ==
    IF child_sizes = <<>> THEN <<>>
    ELSE <<pos>> \o PushPacked(F64Add(pos, F64FromInt(child_sizes[1])), Tail(child_sizes))

RECURSIVE PushSpaced(_, _, _)
\* for &size in child_sizes { positions.push(pos); pos += size + spacing; }
PushSpaced(pos, child_sizes, spacing) ==
    IF child_sizes = <<>> THEN <<>>
    ELSE <<pos>> \o PushSpaced(F64Add(pos, F64Add(F64FromInt(child_sizes[1]), spacing)),
                               Tail(child_sizes), spacing)

calculate_positions_on_axis(free_space, child_sizes, justify_content) ==
    LET n == Len(child_sizes)
        fs == F64FromInt(free_space)
    IN CASE justify_content = "FlexStart" -> PushPacked(F64FromInt(0), child_sizes)
         [] justify_content = "FlexEnd" -> PushPacked(fs, child_sizes)
         [] justify_content = "Center" -> PushPacked(F64Half(fs), child_sizes)
         [] justify_content = "SpaceBetween" ->
              IF n > 1 THEN PushSpaced(F64FromInt(0), child_sizes, F64DivInt(fs, n - 1))
              ELSE <<F64Half(fs)>>
         [] justify_content = "SpaceAround" ->
              \* without children the spacing is free_space / 0.0 and is never used
              IF n = 0 THEN <<>>
              ELSE PushSpaced(F64Half(F64DivInt(fs, n)), child_sizes, F64DivInt(fs, n))
         [] justify_content = "SpaceEvenly" ->
              PushSpaced(F64DivInt(fs, n + 1), child_sizes, F64DivInt(fs, n + 1))

(***************************************************************************)
(* style/mod.rs, style/flex.rs: Style and the declaration parser            *)
(***************************************************************************)
FlexDirection == {"X", "Y", "Z", "ReverseX", "ReverseY", "ReverseZ"}
Display == {"Flex", "Cube"}
AlignItem == {"FlexStart", "FlexEnd", "Center"}

AlignItems(cross1, cross2) == [cross1 |-> cross1, cross2 |-> cross2]

\* impl Default for Style
StyleDefault ==
    [size |-> SpaceSizeDefault,
     display |-> "Flex",
     justify_content |-> "FlexStart",
     align_items |-> AlignItems("FlexStart", "FlexStart"),
     flex_direction |-> "ReverseZ",
     position |-> SpaceSize(Auto, Auto, Auto),
     flex_basis |-> Auto]

\* the main axis of a flex direction
MainAxis(direction) ==
    IF direction \in {"X", "ReverseX"} THEN "x"
    ELSE IF direction \in {"Y", "ReverseY"} THEN "y"
    ELSE "z"

IsReverse(direction) == direction \in {"ReverseX", "ReverseY", "ReverseZ"}

\* the cross axes of a main axis, in the order of align-items
Cross1(main) == IF main = "x" THEN "y" ELSE "x"
Cross2(main) == IF main = "z" THEN "y" ELSE "z"

\* FlexBasis::to_space_size
to_space_size(flex_basis, direction) ==
    [a \in Axes |-> IF a = MainAxis(direction) THEN flex_basis ELSE Auto]

\* One `property:value` declaration of a style string.  ok says whether the
\* value text parses for that property (value count, units, enum literal);
\* value is what it parses to.
Decl(property, value) == [property |-> property, ok |-> TRUE, value |-> value]
BadDecl(property) == [property |-> property, ok |-> FALSE, value |-> 0]
\* a declaration that does not split into one property and one value at ':'
Malformed == BadDecl("")

KnownProperties ==
    {"size", "display", "justify-content", "align-items", "flex-direction", "pos", "flex-basis"}

\* the assignment a well-formed declaration makes
ApplyDecl(style, d) ==
    CASE d.property = "size" -> [style EXCEPT !.size = d.value]
      [] d.property = "display" -> [style EXCEPT !.display = d.value]
      [] d.property = "justify-content" -> [style EXCEPT !.justify_content = d.value]
      [] d.property = "align-items" -> [style EXCEPT !.align_items = d.value]
      [] d.property = "flex-direction" -> [style EXCEPT !.flex_direction = d.value]
      [] d.property = "pos" -> [style EXCEPT !.position = d.value]
      [] d.property = "flex-basis" -> [style EXCEPT !.flex_basis = d.value]

RECURSIVE ParseDeclarations_SkipBad(_, _)
\* a parser that passes over a declaration it cannot read
ParseDeclarations_SkipBad(decls, style) ==
    IF decls = <<>> THEN [ok |-> TRUE, style |-> style]
    ELSE LET d == decls[1]
         IN IF d.property \notin KnownProperties \/ ~d.ok
            THEN ParseDeclarations_SkipBad(Tail(decls), style)
            ELSE ParseDeclarations_SkipBad(Tail(decls), ApplyDecl(style, d))

RECURSIVE ParseDeclarations(_, _)
ParseDeclarations(decls, style) ==
    IF decls = <<>> THEN [ok |-> TRUE, style |-> style]
    ELSE LET d == decls[1]
         IN IF d.property = "" THEN [ok |-> FALSE, style |-> StyleDefault]
            ELSE IF d.property \notin KnownProperties
            THEN ParseDeclarations(Tail(decls), style)
            ELSE IF ~d.ok THEN [ok |-> FALSE, style |-> StyleDefault]
            ELSE ParseDeclarations(Tail(decls), ApplyDecl(style, d))

\* Style::from_style_string
from_style_string(decls) == ParseDeclarations(decls, StyleDefault)

(***************************************************************************)
(* Style strings as text: the declarations Style::from_style_string reads   *)
(* out of the characters of a style attribute                               *)
(***************************************************************************)
\* str::to_lowercase, on ASCII text
to_lowercase(s) ==
    LET Upper == <<"A", "B", "C", "D", "E", "F", "G", "H", "I", "J", "K", "L", "M", "N", "O", "P", "Q", "R", "S", "T", "U", "V", "W", "X", "Y", "Z">>
        Lower == <<"a", "b", "c", "d", "e", "f", "g", "h", "i", "j", "k", "l", "m", "n", "o", "p", "q", "r", "s", "t", "u", "v", "w", "x", "y", "z">>
    IN [i \in 1..Len(s) |->
           IF \E k \in 1..Len(Upper) : Upper[k] = s[i]
           THEN Lower[CHOOSE k \in 1..Len(Upper) : Upper[k] = s[i]]
           ELSE s[i]]

IsWhitespace(ch) == ch \in {" ", "\t", "\n"}

\* str::trim
trim(s) ==
    LET inked == {i \in 1..Len(s) : ~IsWhitespace(s[i])}
    IN IF inked = {} THEN <<>>
       ELSE SubSeq(s, CHOOSE i \in inked : \A j \in inked : i <= j,
                      CHOOSE i \in inked : \A j \in inked : i >= j)

RECURSIVE split(_, _)
\* str::split(sep): the pieces between the separators, empty ones included
split(s, sep) ==
    LET hits == {i \in 1..Len(s) : s[i] = sep}
    IN IF hits = {} THEN <<s>>
       ELSE LET first == CHOOSE i \in hits : \A j \in hits : i <= j
            IN <<SubSeq(s, 1, first - 1)>> \o split(SubSeq(s, first + 1, Len(s)), sep)

RECURSIVE split_whitespace(_)
\* str::split_whitespace: the maximal runs of characters that are not blank
split_whitespace(s) ==
    LET t == trim(s)
        blanks == {i \in 1..Len(t) : IsWhitespace(t[i])}
        stop == IF blanks = {} THEN Len(t) + 1
                ELSE CHOOSE i \in blanks : \A j \in blanks : i <= j
    IN IF t = <<>> THEN <<>>
       ELSE <<SubSeq(t, 1, stop - 1)>> \o split_whitespace(SubSeq(t, stop, Len(t)))

ends_with(s, ch) == s # <<>> /\ s[Len(s)] = ch

NoValue == [ok |-> FALSE, v |-> 0]
SomeValue(v) == [ok |-> TRUE, v |-> v]

\* the value an enumeration's from_str matches a literal to
MatchLiteral(literals, s) ==
    LET text == to_lowercase(trim(s))
    IN IF \E l \in literals : l[1] = text
       THEN SomeValue((CHOOSE l \in literals : l[1] = text)[2])
       ELSE NoValue

PERCENT_MAX == 100

\* impl FromStr for Percentage, on text without sign
PercentageFromStr(str) ==
    LET s == trim(str)
        number_str == SubSeq(s, 1, Len(s) - 1)
    IN IF s = <<>> \/ ~ends_with(s, "%") THEN NoValue
       ELSE IF number_str = <<>> \/ \E i \in 1..Len(number_str) : ~IsDigit(number_str[i])
            THEN NoValue
       ELSE IF ParseDecimal(number_str, 0) > PERCENT_MAX THEN NoValue
       ELSE SomeValue(Percentage(ParseDecimal(number_str, 0)))

\* Length::from_str as a size: the trimmed text, in millimetres
LengthValueFromStr(s) ==
    IF LengthFromStr(trim(s)).ok THEN SomeValue(Length(LengthFromStr(trim(s)).mm))
    ELSE NoValue

\* impl FromStr for SizeValue
SizeValueFromStr(str) ==
    LET s == to_lowercase(trim(str))
    IN IF s = <<"a", "u", "t", "o">> THEN SomeValue(Auto)
       ELSE IF ends_with(s, "%") THEN PercentageFromStr(s)
       ELSE LengthValueFromStr(s)

\* impl FromStr for PositionValue
PositionValueFromStr(str) ==
    LET s == to_lowercase(trim(str))
    IN IF s = <<"a", "u", "t", "o">> THEN SomeValue(Auto)
       ELSE LengthValueFromStr(s)

\* impl FromStr for FlexBasis
FlexBasisFromStr(str) ==
    LET s == to_lowercase(trim(str))
    IN IF s = <<"a", "u", "t", "o">> THEN SomeValue(Auto)
       ELSE IF ends_with(s, "%") THEN PercentageFromStr(s)
       ELSE LengthValueFromStr(s)

\* impl FromStr for Display
DisplayLiterals ==
    {<<<<"f", "l", "e", "x">>, "Flex">>,
     <<<<"c", "u", "b", "e">>, "Cube">>}

\* impl FromStr for AlignItem
AlignItemLiterals ==
    {<<<<"f", "l", "e", "x", "-", "s", "t", "a", "r", "t">>, "FlexStart">>,
     <<<<"f", "l", "e", "x", "-", "e", "n", "d">>, "FlexEnd">>,
     <<<<"c", "e", "n", "t", "e", "r">>, "Center">>}

\* impl FromStr for JustifyContent
JustifyContentLiterals ==
    {<<<<"f", "l", "e", "x", "-", "s", "t", "a", "r", "t">>, "FlexStart">>,
     <<<<"f", "l", "e", "x", "-", "e", "n", "d">>, "FlexEnd">>,
     <<<<"c", "e", "n", "t", "e", "r">>, "Center">>,
     <<<<"s", "p", "a", "c", "e", "-", "b", "e", "t", "w", "e", "e", "n">>, "SpaceBetween">>,
     <<<<"s", "p", "a", "c", "e", "-", "a", "r", "o", "u", "n", "d">>, "SpaceAround">>,
     <<<<"s", "p", "a", "c", "e", "-", "e", "v", "e", "n", "l", "y">>, "SpaceEvenly">>}

\* impl FromStr for FlexDirection
FlexDirectionLiterals ==
    {<<<<"x">>, "X">>,
     <<<<"y">>, "Y">>,
     <<<<"z">>, "Z">>,
     <<<<"x", "-", "r", "e", "v", "e", "r", "s", "e">>, "ReverseX">>,
     <<<<"y", "-", "r", "e", "v", "e", "r", "s", "e">>, "ReverseY">>,
     <<<<"z", "-", "r", "e", "v", "e", "r", "s", "e">>, "ReverseZ">>}

\* the property names from_style_string matches, as text
PropertyNames ==
    {<<<<"s", "i", "z", "e">>, "size">>,
     <<<<"d", "i", "s", "p", "l", "a", "y">>, "display">>,
     <<<<"j", "u", "s", "t", "i", "f", "y", "-", "c", "o", "n", "t", "e", "n", "t">>, "justify-content">>,
     <<<<"a", "l", "i", "g", "n", "-", "i", "t", "e", "m", "s">>, "align-items">>,
     <<<<"f", "l", "e", "x", "-", "d", "i", "r", "e", "c", "t", "i", "o", "n">>, "flex-direction">>,
     <<<<"p", "o", "s">>, "pos">>,
     <<<<"f", "l", "e", "x", "-", "b", "a", "s", "i", "s">>, "flex-basis">>}

\* impl FromStr for AlignItems
AlignItemsFromStr(s) ==
    LET parts == split_whitespace(trim(s))
    IN IF Len(parts) # 2 THEN NoValue
       ELSE IF MatchLiteral(AlignItemLiterals, parts[1]).ok
               /\ MatchLiteral(AlignItemLiterals, parts[2]).ok
            THEN SomeValue(AlignItems(MatchLiteral(AlignItemLiterals, parts[1]).v,
                                      MatchLiteral(AlignItemLiterals, parts[2]).v))
       ELSE NoValue

\* the three values of size or pos, from the results of parsing each word
ThreeValues(parsed) ==
    IF Len(parsed) # 3 THEN NoValue
    ELSE IF \A i \in 1..3 : parsed[i].ok
         THEN SomeValue(SpaceSize(parsed[1].v, parsed[2].v, parsed[3].v))
    ELSE NoValue

\* the value text of a known property, parsed by that property's parser
ParseValue(property, value) ==
    LET words == split_whitespace(value)
    IN CASE property = "size" ->
                ThreeValues([i \in 1..Len(words) |-> SizeValueFromStr(words[i])])
         [] property = "display" -> MatchLiteral(DisplayLiterals, value)
         [] property = "justify-content" -> MatchLiteral(JustifyContentLiterals, value)
         [] property = "align-items" -> AlignItemsFromStr(value)
         [] property = "flex-direction" -> MatchLiteral(FlexDirectionLiterals, value)
         [] property = "pos" ->
                ThreeValues([i \in 1..Len(words) |-> PositionValueFromStr(words[i])])
         [] property = "flex-basis" -> FlexBasisFromStr(value)

\* one trimmed, non-empty declaration of the string, split at ':'
ParseDeclarationText(declaration) ==
    LET parts == split(declaration, ":")
        property == trim(parts[1])
        value == trim(parts[2])
    IN IF Len(parts) # 2 THEN Malformed
       ELSE IF \A p \in PropertyNames : p[1] # property THEN Decl("unknown", 0)
       ELSE LET name == (CHOOSE p \in PropertyNames : p[1] = property)[2]
            IN IF ParseValue(name, value).ok THEN Decl(name, ParseValue(name, value).v)
               ELSE BadDecl(name)

\* the declarations of a style string: split at ';', trimmed, empty ones dropped
DeclarationsOf(style_str) ==
    LET pieces == split(style_str, ";")
        kept == SelectSeq(pieces, LAMBDA d : trim(d) # <<>>)
    IN [i \in 1..Len(kept) |-> ParseDeclarationText(trim(kept[i]))]

\* Style::from_style_string on the characters of the attribute
StyleFromText(style_str) == ParseDeclarations(DeclarationsOf(style_str), StyleDefault)


(***************************************************************************)
(* package.rs: the catalogue                                                *)
(***************************************************************************)
\* the objects, dependencies and groups of the package the resolver is given
package ==
    [objects |-> [n \in {"table_plane", "box_bottle", "crate_a", "crate_b"} |->
                    CASE n = "table_plane" -> Dim3(from_m(1), from_m(1), from_cm(10))
                      [] n = "box_bottle" -> Dim3(from_cm(10), from_cm(10), from_cm(10))
                      [] n = "crate_a" -> Dim3(from_mm(10), from_mm(20), from_mm(30))
                      [] n = "crate_b" -> Dim3(from_mm(5), from_mm(25), from_mm(40))],
     dependencies |-> [n \in {"bottle"} |-> Dim3(from_cm(10), from_cm(10), from_cm(10))],
     groups |-> <<[name |-> "bottles", items |-> <<"box_bottle", "bottle">>],
                  [name |-> "broken", items |-> <<"box_bottle", "ghost">>]>>]

NoDim == [ok |-> FALSE, dim |-> Dim3(0, 0, 0)]
OkDim(d) == [ok |-> TRUE, dim |-> d]

RECURSIVE GroupMax(_, _)
\* Group::space_size: the component-wise maximum over the group's items
GroupMax(items, acc) ==
    IF items = <<>> THEN OkDim(acc)
    ELSE LET n == items[1]
         IN IF n \in DOMAIN package.objects
            THEN GroupMax(Tail(items), [a \in Axes |-> LenMax(package.objects[n][a], acc[a])])
            ELSE IF n \in DOMAIN package.dependencies
            THEN GroupMax(Tail(items), [a \in Axes |-> LenMax(package.dependencies[n][a], acc[a])])
            ELSE NoDim

\* Package::get_space_size
get_space_size(name) ==
    IF name \in DOMAIN package.objects THEN OkDim(package.objects[name])
    ELSE IF \E i \in DOMAIN package.groups : package.groups[i].name = name
         THEN LET i == CHOOSE j \in DOMAIN package.groups :
                          /\ package.groups[j].name = name
                          /\ \A k \in DOMAIN package.groups :
                                package.groups[k].name = name => j <= k
              IN GroupMax(package.groups[i].items, Dim3(0, 0, 0))
    ELSE NoDim

(***************************************************************************)
(* render_tree.rs: construction                                             *)
(***************************************************************************)
\* An element: tag name, index of its parent element (0 for the root), text,
\* and the declarations of its style attribute (none when it has no style).
\* Elements are numbered in document order.
Element(name, parent, text, style) ==
    [name |-> name, parent |-> parent, text |-> text, style |-> style]

determine_node_type(tag_name) ==
    IF tag_name \in {"object", "group"} THEN "Item" ELSE "Space"

space_style == <<Decl("display", "Flex"), Decl("flex-direction", "ReverseZ")>>
item_style == <<Decl("display", "Flex")>>
BODY_STYLE_SIZE_M == 10
body_style ==
    <<Decl("display", "Flex"), Decl("flex-direction", "ReverseZ"),
      Decl("size", SpaceSize(Length(from_m(BODY_STYLE_SIZE_M)),
                             Length(from_m(BODY_STYLE_SIZE_M)),
                             Length(from_m(BODY_STYLE_SIZE_M))))>>

\* the declarations build_node_recursive parses for an element
MergedStyle(el) ==
    LET style == IF el.name = "body" THEN body_style ELSE el.style
    IN IF determine_node_type(el.name) = "Space" THEN space_style \o style
       ELSE item_style \o style

\* the children of element n, in document order
ChildrenOf(els, n) ==
    LET ids == {i \in DOMAIN els : els[i].parent = n}
    IN [k \in 1..Cardinality(ids) |->
          CHOOSE i \in ids : Cardinality({j \in ids : j < i}) = k - 1]

\* a construction that gives up on the children of an element whose style fails
build_node_recursive_StopAtBadStyle(els, n) ==
    LET el == els[n]
        parsed == from_style_string(MergedStyle(el))
    IN [node_type |-> determine_node_type(el.name),
        tag_name |-> el.name,
        text_content |-> el.text,
        specified_style |-> IF parsed.ok THEN parsed.style ELSE StyleDefault,
        parent |-> el.parent,
        children |-> IF parsed.ok THEN ChildrenOf(els, n) ELSE <<>>]

\* a construction whose append_child leaves the child's parent link empty
build_node_recursive_Unlinked(els, n) ==
    LET el == els[n]
        parsed == from_style_string(MergedStyle(el))
    IN [node_type |-> determine_node_type(el.name),
        tag_name |-> el.name,
        text_content |-> el.text,
        specified_style |-> IF parsed.ok THEN parsed.style ELSE StyleDefault,
        parent |-> 0,
        children |-> ChildrenOf(els, n)]

\* RenderTree::build_node_recursive for element n: the node it makes
build_node_recursive(els, n) ==
    LET el == els[n]
        parsed == from_style_string(MergedStyle(el))
    IN [node_type |-> determine_node_type(el.name),
        tag_name |-> el.name,
        text_content |-> el.text,
        specified_style |-> IF parsed.ok THEN parsed.style ELSE StyleDefault,
        parent |-> el.parent,
        children |-> ChildrenOf(els, n)]

\* RenderTree::new
RenderTreeNew(els) == [n \in DOMAIN els |-> build_node_recursive(els, n)]

(***************************************************************************)
(* render_tree.rs: the size passes.  A pass takes the tree and the computed *)
(* sizes and gives the sizes it leaves and the error it stopped with.       *)
(***************************************************************************)
NoError == "none"
ParentNotFound == "RenderTree: Parent node not found"
UnableToCalculate == "RenderTree: Unable to calculate the size of node"
InvalidStructure == "InvalidStructure"
CubeSizeError == "CubeSizeError"
NotYetImplemented == "panic: not yet implemented"
SubtractOverflow == "panic: attempt to subtract with overflow"

\* RenderTree::find_body_node: the first node tagged body in document order,
\* 0 when there is none
find_body_node(tree) ==
    LET bodies == {n \in DOMAIN tree : tree[n].tag_name = "body"}
    IN IF bodies = {} THEN 0
       ELSE CHOOSE n \in bodies : \A m \in bodies : n <= m

\* a top-down step without the flex-basis merge
SizeByParent_NoBasis(tree, size, n) ==
    space_assign_priority(size[n],
        [a \in Axes |-> calculate_dimension_size(tree[n].specified_style.size[a],
                                                 size[tree[n].parent][a])])

\* the body of calculate_size_by_parent_recursive for one node whose parent exists
SizeByParent(tree, size, n) ==
    LET parent == tree[n].parent
        parent_size == size[parent]
        own == tree[n].specified_style.size
        first == space_assign_priority(size[n],
                    [a \in Axes |-> calculate_dimension_size(own[a], parent_size[a])])
        basis_size == to_space_size(tree[n].specified_style.flex_basis,
                                    tree[parent].specified_style.flex_direction)
    IN IF tree[parent].specified_style.display = "Flex"
       THEN space_assign_priority(first,
                [a \in Axes |-> calculate_dimension_size(basis_size[a], own[a])])
       ELSE first

RECURSIVE calculate_size_by_parent_recursive(_, _, _)
RECURSIVE SizeByParentChildren(_, _, _)
calculate_size_by_parent_recursive(tree, size, n) ==
    IF tree[n].parent = 0 THEN [size |-> size, err |-> ParentNotFound]
    ELSE SizeByParentChildren(tree, [size EXCEPT ![n] = SizeByParent(tree, size, n)],
                              tree[n].children)

\* for child in children { self.calculate_size_by_parent_recursive(&child)?; }
SizeByParentChildren(tree, size, children) ==
    IF children = <<>> THEN [size |-> size, err |-> NoError]
    ELSE LET r == calculate_size_by_parent_recursive(tree, size, children[1])
         IN IF r.err # NoError THEN r
            ELSE SizeByParentChildren(tree, r.size, Tail(children))

RECURSIVE FlexChildFold(_, _, _, _)
\* the loop of cal_flex_child_size: add on the main axis, max on the others
FlexChildFold(total, size, children, main) ==
    IF children = <<>> THEN total
    ELSE FlexChildFold(
            [a \in Axes |-> IF a = main THEN SizeValueAdd(total[a], size[children[1]][a])
                            ELSE SizeValueMax(total[a], size[children[1]][a])],
            size, Tail(children), main)

\* a fold that takes z for the main axis whatever the flex direction is
cal_flex_child_size_AlwaysZ(tree, size, n) ==
    FlexChildFold(create_self_by_auto_to_zero(tree[n].specified_style.size), size,
                  tree[n].children, "z")

\* RenderTree::cal_flex_child_size
cal_flex_child_size(tree, size, n) ==
    FlexChildFold(create_self_by_auto_to_zero(tree[n].specified_style.size), size,
                  tree[n].children, MainAxis(tree[n].specified_style.flex_direction))

\* a bottom-up step that lets a Cube node keep its Auto axes
SizeByChild_CubeUnchecked(tree, size, n) ==
    IF tree[n].node_type = "Item"
    THEN LET got == get_space_size(tree[n].text_content)
         IN IF got.ok THEN [size |-> [size EXCEPT ![n] = from_dim3_length(got.dim)],
                            err |-> NoError]
            ELSE [size |-> size, err |-> InvalidStructure]
    ELSE IF tree[n].specified_style.display = "Flex" /\ ~all_length(size[n])
    THEN [size |-> [size EXCEPT ![n] =
                       space_assign_priority(size[n], cal_flex_child_size(tree, size, n))],
          err |-> NoError]
    ELSE [size |-> size, err |-> NoError]

\* a bottom-up step that derives nothing for a Flex Space from its children
SizeByChild_FlexUntouched(tree, size, n) ==
    IF tree[n].node_type = "Item"
    THEN LET got == get_space_size(tree[n].text_content)
         IN IF got.ok THEN [size |-> [size EXCEPT ![n] = from_dim3_length(got.dim)],
                            err |-> NoError]
            ELSE [size |-> size, err |-> InvalidStructure]
    ELSE IF tree[n].specified_style.display = "Flex" THEN [size |-> size, err |-> NoError]
    ELSE IF has_auto(size[n]) THEN [size |-> size, err |-> CubeSizeError]
    ELSE [size |-> size, err |-> NoError]

\* a bottom-up step that gives an Item the catalogue does not know no size
SizeByChild_MissingSkipped(tree, size, n) ==
    IF tree[n].node_type = "Item"
    THEN LET got == get_space_size(tree[n].text_content)
         IN IF got.ok THEN [size |-> [size EXCEPT ![n] = from_dim3_length(got.dim)],
                            err |-> NoError]
            ELSE [size |-> [size EXCEPT ![n] = from_dim3_length(Dim3(0, 0, 0))],
                  err |-> NoError]
    ELSE IF tree[n].specified_style.display = "Flex"
    THEN IF ~all_length(size[n])
         THEN [size |-> [size EXCEPT ![n] =
                            space_assign_priority(size[n], cal_flex_child_size(tree, size, n))],
               err |-> NoError]
         ELSE [size |-> size, err |-> NoError]
    ELSE IF has_auto(size[n]) THEN [size |-> size, err |-> CubeSizeError]
    ELSE [size |-> size, err |-> NoError]

\* the part of calculate_size_by_child_recursive after the children
SizeByChild(tree, size, n) ==
    IF tree[n].node_type = "Item"
    THEN LET got == get_space_size(tree[n].text_content)
         IN IF got.ok THEN [size |-> [size EXCEPT ![n] = from_dim3_length(got.dim)],
                            err |-> NoError]
            ELSE [size |-> size, err |-> InvalidStructure]
    ELSE IF tree[n].specified_style.display = "Flex"
    THEN IF ~all_length(size[n])
         THEN [size |-> [size EXCEPT ![n] =
                            space_assign_priority(size[n], cal_flex_child_size(tree, size, n))],
               err |-> NoError]
         ELSE [size |-> size, err |-> NoError]
    ELSE IF has_auto(size[n]) THEN [size |-> size, err |-> CubeSizeError]
    ELSE [size |-> size, err |-> NoError]

RECURSIVE calculate_size_by_child_recursive(_, _, _)
RECURSIVE SizeByChildChildren(_, _, _)
calculate_size_by_child_recursive(tree, size, n) ==
    LET r == SizeByChildChildren(tree, size, tree[n].children)
    IN IF r.err # NoError THEN r ELSE SizeByChild(tree, r.size, n)

\* for child in children { self.calculate_size_by_child_recursive(child)?; }
SizeByChildChildren(tree, size, children) ==
    IF children = <<>> THEN [size |-> size, err |-> NoError]
    ELSE LET r == calculate_size_by_child_recursive(tree, size, children[1])
         IN IF r.err # NoError THEN r
            ELSE SizeByChildChildren(tree, r.size, Tail(children))

(***************************************************************************)
(* render_tree.rs: the position pass                                        *)
(***************************************************************************)
I32_MAX == 2147483647

\* The two builds differ on `a - b` over u32 with a < b: the checked build
\* panics, the unchecked build wraps.
Builds == {"checked", "unchecked"}

\* node - child as the cross-axis code computes it in the unchecked build, when
\* node < child.  A stored offset v < 0 stands for the u32 value 2^32 + v.
WrappedSub(node_len, child_len) == node_len - child_len

\* (node - child) / 2 after a wrap: (2^32 + d) / 2 = 2^31 + floor(d / 2)
WrappedHalf(node_len, child_len) == I32_MAX + (((node_len - child_len) \div 2) + 1)

\* the match on align_items.cross1 / cross2 for one child and one cross axis
CrossOffset(align, node_len, child_len) ==
    CASE align = "FlexStart" -> from_m(0)
      [] align = "FlexEnd" ->
           IF node_len >= child_len THEN from_mm(node_len - child_len)
           ELSE from_mm(WrappedSub(node_len, child_len))
      [] align = "Center" ->
           IF node_len >= child_len THEN from_mm((node_len - child_len) \div 2)
           ELSE from_mm(WrappedHalf(node_len, child_len))

\* whether that match subtracts a larger length from a smaller one
CrossUnderflows(align, node_len, child_len) ==
    align # "FlexStart" /\ node_len < child_len

Reverse(seq) == [i \in 1..Len(seq) |-> seq[Len(seq) + 1 - i]]

RECURSIVE TotalChildSize(_, _)
\* total_child_size += child_size, on one axis
TotalChildSize(sizes, acc) ==
    IF sizes = <<>> THEN acc ELSE TotalChildSize(Tail(sizes), LenAdd(acc, sizes[1]))

\* positions reversed for every direction
Oriented_AlwaysReversed(direction, positions) == Reverse(positions)

\* positions left in document order for every direction
Oriented_NeverReversed(direction, positions) == positions

\* if matches!(flex_direction, Reverse*) { positions.reverse(); }
Oriented(direction, positions) ==
    IF IsReverse(direction) THEN Reverse(positions) ELSE positions

\* the loop over positions: the main-axis offset cast to u32, and for the
\* entries that have a child the two cross-axis offsets
ChildPositions(style, node_dim, child_lengths, positions) ==
    LET main == MainAxis(style.flex_direction)
        Align(a) == IF a = Cross1(main) THEN style.align_items.cross1
                    ELSE style.align_items.cross2
    IN [i \in 1..Len(positions) |->
          [a \in Axes |->
              IF a = main THEN from_mm(F64AsU32(positions[i]))
              ELSE IF i <= Len(child_lengths)
                   THEN CrossOffset(Align(a), node_dim[a], child_lengths[i][a])
                   ELSE from_m(0)]]

\* whether that loop subtracts with overflow before it ends
PositionsUnderflow(style, node_dim, child_lengths, positions) ==
    LET main == MainAxis(style.flex_direction)
    IN \E i \in 1..Len(positions) :
          /\ i <= Len(child_lengths)
          /\ \/ CrossUnderflows(style.align_items.cross1, node_dim[Cross1(main)],
                                child_lengths[i][Cross1(main)])
             \/ CrossUnderflows(style.align_items.cross2, node_dim[Cross2(main)],
                                child_lengths[i][Cross2(main)])

\* the outcome of the loop in one build
PlaceChildren(style, node_dim, child_lengths, positions, build) ==
    IF build = "checked" /\ PositionsUnderflow(style, node_dim, child_lengths, positions)
    THEN [err |-> SubtractOverflow, child_positions |-> <<>>]
    ELSE [err |-> NoError,
          child_positions |-> ChildPositions(style, node_dim, child_lengths, positions)]

\* free_space and the positions along the main axis, reversed for a reverse direction
MainAxisPositions(style, node_dim, main_sizes) ==
    Oriented(style.flex_direction,
             calculate_positions_on_axis(
                 node_dim[MainAxis(style.flex_direction)] - TotalChildSize(main_sizes, from_mm(0)),
                 main_sizes, style.justify_content))

\* the part of calculate_flex_child_positions after every size was found a Length
FlexChildPositions(style, node_dim, child_lengths, build) ==
    PlaceChildren(style, node_dim, child_lengths,
                  MainAxisPositions(style, node_dim,
                      [i \in 1..Len(child_lengths) |->
                          child_lengths[i][MainAxis(style.flex_direction)]]),
                  build)

\* RenderTree::calculate_flex_child_positions: the error or panic it ends
\* with, and the positions it stores
calculate_flex_child_positions(tree, size, n, build) ==
    IF \/ ~get_length(size[n]).some
       \/ \E i \in 1..Len(tree[n].children) : ~get_length(size[tree[n].children[i]]).some
    THEN [err |-> UnableToCalculate, child_positions |-> <<>>]
    ELSE FlexChildPositions(tree[n].specified_style, get_length(size[n]).dim,
            [i \in 1..Len(tree[n].children) |-> get_length(size[tree[n].children[i]]).dim],
            build)

RECURSIVE calculate_pos_recursive(_, _, _, _, _)
RECURSIVE PosChildren(_, _, _, _, _)
RECURSIVE StorePositions(_, _, _, _, _, _)
\* st holds absolute_pos and flex_child_space of every node
calculate_pos_recursive(tree, size, st, n, build) ==
    IF tree[n].specified_style.display = "Cube"
    THEN [st EXCEPT !.err = NotYetImplemented]
    ELSE StorePositions(tree, size, st, n, build,
                        calculate_flex_child_positions(tree, size, n, build))

\* the end of calculate_flex_child_positions, then the loop over the children
StorePositions(tree, size, st, n, build, r) ==
    LET kids == tree[n].children
    IN IF r.err # NoError THEN [st EXCEPT !.err = r.err]
       ELSE PosChildren(tree, size,
               [pos |-> [m \in DOMAIN tree |->
                           IF \E i \in 1..Len(kids) :
                                 kids[i] = m /\ i <= Len(r.child_positions)
                           THEN r.child_positions[CHOOSE i \in 1..Len(kids) : kids[i] = m]
                           ELSE st.pos[m]],
                fcs |-> [st.fcs EXCEPT ![n] = r.child_positions],
                err |-> NoError],
               kids, build)

\* for child in children { self.calculate_pos_recursive(&child)?; }
PosChildren(tree, size, st, children, build) ==
    IF children = <<>> THEN st
    ELSE LET r == calculate_pos_recursive(tree, size, st, children[1], build)
         IN IF r.err # NoError THEN r
            ELSE PosChildren(tree, size, r, Tail(children), build)

(***************************************************************************)
(* The element trees RenderTree::new is given                               *)
(***************************************************************************)
Size3(x, y, z) == SpaceSize(Length(from_mm(x)), Length(from_mm(y)), Length(from_mm(z)))

SeqsUpTo(S, n) == UNION {[1..k -> S] : k \in 0..n}

Object(name, style) == Element("object", 0, name, style)
Space(style) == Element("space", 0, "", style)

\* children of the container in the trees that exercise the size passes
SizingKids ==
    {Object("crate_a", <<>>),
     Object("table_plane", <<Decl("size", Size3(20, 20, 20))>>),
     Object("crate_b", <<Decl("flex-basis", Length(from_mm(7)))>>),
     Object("nonexistent", <<>>),
     Space(<<Decl("size", Size3(10, 20, 30)), Decl("flex-basis", Length(from_mm(7)))>>),
     Space(<<Decl("size", Size3(40, 40, 40)), Decl("flex-basis", Percentage(50))>>),
     Space(<<Decl("display", "Cube"), Decl("color", "red")>>),
     Space(<<Decl("size", SpaceSize(Percentage(50), Percentage(50), Percentage(50)))>>)}

SizingContainers ==
    {Space(size \o display \o direction) :
        size \in {<<>>, <<Decl("size", Size3(300, 300, 300))>>,
                  <<Decl("size", SpaceSize(Percentage(50), Auto, Length(from_mm(200))))>>},
        display \in {<<>>, <<Decl("display", "Cube")>>},
        direction \in {<<>>, <<Decl("flex-direction", "X")>>}}
    \cup {Space(<<Decl("size", Size3(300, 300, 300)), BadDecl("display")>>),
          Space(<<Decl("size", Size3(300, 300, 300)), Malformed>>)}

\* children of the container in the trees that exercise the position pass
PlacingKids ==
    {Object("crate_a", <<>>), Object("crate_b", <<>>), Element("group", 0, "bottles", <<>>)}

\* every justify-content under the default alignment, and the other alignments
\* under two of them
PlacingLayouts ==
    {<<justify, AlignItems("FlexStart", "FlexStart")>> : justify \in JustifyContent}
    \cup {<<justify, align>> :
            justify \in {"FlexStart", "SpaceBetween"},
            align \in {AlignItems("FlexEnd", "Center"), AlignItems("Center", "FlexEnd")}}

PlacingContainers ==
    {Space(size \o <<Decl("flex-direction", direction), Decl("justify-content", layout[1]),
                     Decl("align-items", layout[2])>>) :
        size \in {<<>>, <<Decl("size", Size3(100, 100, 15))>>},
        direction \in FlexDirection,
        layout \in PlacingLayouts}

\* rsml > body > container > kids, then the rest of body's children
Document(body_attr, container, kids, rest) ==
    <<Element("rsml", 0, "", <<>>), Element("body", 1, "", body_attr),
      [container EXCEPT !.parent = 2]>>
    \o [i \in 1..Len(kids) |-> [kids[i] EXCEPT !.parent = 3]]
    \o [i \in 1..Len(rest) |-> [rest[i] EXCEPT !.parent = 2]]

SizingDocuments ==
    {Document(<<>>, c, kids, <<>>) : c \in SizingContainers, kids \in SeqsUpTo(SizingKids, MaxKids)}

PlacingDocuments ==
    {Document(<<>>, c, kids, <<>>) : c \in PlacingContainers, kids \in SeqsUpTo(PlacingKids, MaxKids)}

\* a body with an author style and a second child after the container
SiblingDocuments ==
    {Document(<<Decl("flex-direction", "X"), Decl("size", Size3(50, 50, 50))>>,
              Space(<<Decl("flex-direction", direction), Decl("justify-content", justify)>>),
              kids, <<Object("crate_a", <<>>)>>) :
        direction \in FlexDirection, justify \in {"FlexStart", "SpaceBetween"},
        kids \in SeqsUpTo(PlacingKids, MaxKids)}

\* the documented scene: a table and a group of bottles side by side along x
ExampleDocuments ==
    {Document(<<>>, Space(<<Decl("size", SpaceSize(Auto, Auto, Auto)),
                            Decl("flex-direction", "X")>>),
              <<Object("table_plane", <<>>), Element("group", 0, "bottles", <<>>)>>, <<>>)}

\* rsml > body > outer > inner > leaves: percentages of sizes that the children
\* decide, one and two levels up
NestedDocuments ==
    {<<Element("rsml", 0, "", <<>>), Element("body", 1, "", <<>>),
       [outer EXCEPT !.parent = 2], [inner EXCEPT !.parent = 3]>>
     \o [i \in 1..Len(leaves) |-> [leaves[i] EXCEPT !.parent = 4]] :
        outer \in {Space(<<>>),
                   Space(<<Decl("size", SpaceSize(Percentage(50), Auto, Auto))>>)},
        inner \in {Space(<<>>),
                   Space(<<Decl("size", SpaceSize(Percentage(50), Percentage(50), Percentage(50)))>>),
                   Space(<<Decl("size", SpaceSize(Percentage(50), Percentage(50), Percentage(50))),
                           Decl("flex-basis", Length(from_mm(7)))>>),
                   Space(<<Decl("size", SpaceSize(Percentage(50), Auto, Percentage(50))),
                           Decl("flex-direction", "X"), Decl("flex-basis", Percentage(50))>>)},
        leaves \in SeqsUpTo({Object("crate_a", <<>>),
                             Space(<<Decl("size", SpaceSize(Percentage(50), Percentage(50),
                                                            Percentage(50)))>>)}, MaxKids)}

\* an empty body, a tree whose root is the body, a tree without a body, and a
\* body whose own style attribute is malformed, a group with an undefined member
OtherDocuments ==
    {<<Element("rsml", 0, "", <<>>), Element("body", 1, "", <<>>)>>,
     <<Element("rsml", 0, "", <<>>), Element("head", 1, "", <<>>),
       Element("body", 1, "", <<>>), [Object("crate_a", <<>>) EXCEPT !.parent = 3]>>,
     <<Element("body", 0, "", <<>>), [Object("crate_a", <<>>) EXCEPT !.parent = 1]>>,
     <<Element("rsml", 0, "", <<>>), Element("head", 1, "", <<>>)>>,
     Document(<<Malformed, Decl("flex-direction", "X")>>, Space(<<>>),
              <<Object("crate_a", <<>>)>>, <<>>),
     Document(<<>>, Space(<<>>),
              <<Object("crate_a", <<>>), Element("group", 0, "broken", <<>>)>>, <<>>)}

(***************************************************************************)
(* RenderTree::new and RenderTree::calculate                                *)
(***************************************************************************)
NoCall == [fn |-> "none"]

\* a RefCell nobody has borrowed: no Ref and no RefMut is alive
NotBorrowed == [shared |-> 0, mut |-> FALSE]
BODY_SEED_M == 100

\* the state RenderTree::new leaves: the tree built, nothing computed
Init ==
    /\ \/ elements \in SizingDocuments
       \/ elements \in PlacingDocuments
       \/ elements \in SiblingDocuments
       \/ elements \in ExampleDocuments
       \/ elements \in NestedDocuments
       \/ elements \in OtherDocuments
    /\ nodes = RenderTreeNew(elements)
    /\ computed_size = [n \in DOMAIN elements |-> StyleDefault.size]
    /\ absolute_pos = [n \in DOMAIN elements |-> Dim3(0, 0, 0)]
    /\ flex_child_space = [n \in DOMAIN elements |-> <<>>]
    /\ pc = "start"
    /\ result = "running"
    /\ call = NoCall
    /\ ret = <<>>
    /\ stack = <<>>
    /\ borrows = [n \in DOMAIN elements |-> NotBorrowed]

body_node == find_body_node(nodes)

\* the children of node n
Kids(n) == {nodes[n].children[i] : i \in 1..Len(nodes[n].children)}

\* how a pass hands over: on to the next pass, or out of calculate() with the error
Proceed(err, next) ==
    IF err = NoError
    THEN pc' = next /\ result' = result
    ELSE pc' = "done" /\ result' = err

\* calculate(): find the body and seed its computed size; without a body, Ok(())
SeedBody ==
    /\ pc = "start"
    /\ IF body_node = 0
       THEN /\ pc' = "done"
            /\ result' = "Ok"
            /\ UNCHANGED computed_size
       ELSE /\ computed_size' =
                  [computed_size EXCEPT ![body_node] =
                      SpaceSize(Length(from_m(BODY_SEED_M)), Length(from_m(BODY_SEED_M)),
                                Length(from_m(BODY_SEED_M)))]
            /\ pc' = "pass1"
            /\ UNCHANGED result
    /\ UNCHANGED <<elements, nodes, absolute_pos, flex_child_space, call, ret, stack, borrows>>

\* the first self.calculate_size_by_parent_recursive(&body_node)?
Pass1 ==
    /\ pc = "pass1"
    /\ LET r == calculate_size_by_parent_recursive(nodes, computed_size, body_node)
       IN computed_size' = r.size /\ Proceed(r.err, "pass2")
    /\ UNCHANGED <<elements, nodes, absolute_pos, flex_child_space, call, ret, stack, borrows>>

\* self.calculate_size_by_child_recursive(&body_node)?
Pass2 ==
    /\ pc = "pass2"
    /\ LET r == calculate_size_by_child_recursive(nodes, computed_size, body_node)
       IN computed_size' = r.size /\ Proceed(r.err, "pass3")
    /\ UNCHANGED <<elements, nodes, absolute_pos, flex_child_space, call, ret, stack, borrows>>

\* a calculate() that goes from the bottom-up pass straight to the positions
Pass3_Skipped ==
    /\ pc = "pass3"
    /\ pc' = "pos"
    /\ UNCHANGED <<elements, nodes, computed_size, absolute_pos, flex_child_space, result,
                   call, ret, stack, borrows>>

\* the second self.calculate_size_by_parent_recursive(&body_node)?
Pass3 ==
    /\ pc = "pass3"
    /\ LET r == calculate_size_by_parent_recursive(nodes, computed_size, body_node)
       IN computed_size' = r.size /\ Proceed(r.err, "pos")
    /\ UNCHANGED <<elements, nodes, absolute_pos, flex_child_space, call, ret, stack, borrows>>

\* what the position pass stored, and Ok(()) or its error
Returned(r) ==
    /\ absolute_pos' = r.pos
    /\ flex_child_space' = r.fcs
    /\ pc' = "done"
    /\ result' = IF r.err = NoError THEN "Ok" ELSE r.err

\* self.calculate_pos_recursive(&body_node)?; self.print_computed(); Ok(())
PosPass ==
    /\ pc = "pos"
    /\ \E build \in Builds :
          Returned(calculate_pos_recursive(nodes, computed_size,
                      [pos |-> absolute_pos, fcs |-> flex_child_space, err |-> NoError],
                      body_node, build))
    /\ UNCHANGED <<elements, nodes, computed_size, call, ret, stack, borrows>>

Next == SeedBody \/ Pass1 \/ Pass2 \/ Pass3 \/ PosPass

Spec == Init /\ [][Next]_vars

(***************************************************************************)
(* RenderTree::calculate call by call.  Every call of a recursive pass that *)
(* has not returned is a frame on stack; every Ref and RefMut of a node's   *)
(* RefCell is counted in borrows from borrow() / borrow_mut() until the     *)
(* guard is dropped.  A guard that lives only inside one statement or one   *)
(* loop iteration is taken and dropped within the step that runs it.        *)
(***************************************************************************)
AlreadyBorrowed == "panic: already borrowed"
AlreadyMutablyBorrowed == "panic: already mutably borrowed"

\* RefCell::borrow_mut succeeds on a cell with no guard alive, RefCell::borrow
\* on a cell with no RefMut alive
CanBorrowMut(n) == borrows[n] = NotBorrowed
CanBorrow(n) == ~borrows[n].mut

\* a call of the pass fn on node n that has just been entered; i is the child
\* its loop over the children is at
Frame(fn, n, build) == [fn |-> fn, node |-> n, at |-> "enter", i |-> 1, build |-> build]

top == stack[Len(stack)]

\* the passes of calculate() in the order of its statements
NextPass(pass) ==
    CASE pass = "pass1" -> "pass2"
      [] pass = "pass2" -> "pass3"
      [] pass = "pass3" -> "pos"
      [] pass = "pos" -> "done"

\* an error that ends the pass it came from and lets calculate() go on
Stop_NextPass(err) ==
    /\ pc' = NextPass(pc)
    /\ result' = IF pc = "pos" THEN err ELSE result
    /\ stack' = <<>>
    /\ borrows' = [n \in DOMAIN nodes |-> NotBorrowed]

\* an Err passed up by `?` through every frame, or a panic unwinding them: all
\* guards are dropped and calculate() is left
Stop(err) ==
    /\ pc' = "done"
    /\ result' = err
    /\ stack' = <<>>
    /\ borrows' = [n \in DOMAIN nodes |-> NotBorrowed]

\* the top call returns Ok(()); when it was the call made by calculate(), the
\* next statement of calculate() is reached
Pop ==
    /\ stack' = SubSeq(stack, 1, Len(stack) - 1)
    /\ IF Len(stack) = 1
       THEN /\ pc' = NextPass(pc)
            /\ result' = IF pc = "pos" THEN "Ok" ELSE result
       ELSE UNCHANGED <<pc, result>>

\* calculate() calls a pass on the body node
EnterPass ==
    /\ pc \in {"pass1", "pass2", "pass3", "pos"}
    /\ stack = <<>>
    /\ \E build \in Builds : stack' = <<Frame(pc, body_node, build)>>
    /\ UNCHANGED <<elements, nodes, computed_size, absolute_pos, flex_child_space, pc, result,
                   call, ret, borrows>>

\* calculate_size_by_parent_recursive up to the merge of the flex-basis:
\* node.borrow_mut(), the parent or the error, parent.borrow(), the new size
ByParentBorrow ==
    /\ stack # <<>>
    /\ top.fn \in {"pass1", "pass3"}
    /\ top.at = "enter"
    /\ LET n == top.node
           parent == nodes[n].parent
       IN IF ~CanBorrowMut(n) THEN Stop(AlreadyBorrowed) /\ UNCHANGED computed_size
          ELSE IF parent = 0 THEN Stop(ParentNotFound) /\ UNCHANGED computed_size
          ELSE IF ~CanBorrow(parent)
          THEN Stop(AlreadyMutablyBorrowed) /\ UNCHANGED computed_size
          ELSE /\ borrows' = [borrows EXCEPT ![n].mut = TRUE, ![parent].shared = @ + 1]
               /\ computed_size' =
                     [computed_size EXCEPT ![n] = SizeByParent(nodes, computed_size, n)]
               /\ stack' = [stack EXCEPT ![Len(stack)].at = "held"]
               /\ UNCHANGED <<pc, result>>
    /\ UNCHANGED <<elements, nodes, absolute_pos, flex_child_space, call, ret>>

\* a top-down pass that goes into the children with node_ref still alive
ByParentDrop_Kept ==
    /\ stack # <<>>
    /\ top.fn \in {"pass1", "pass3"}
    /\ top.at = "held"
    /\ stack' = [stack EXCEPT ![Len(stack)].at = "children"]
    /\ UNCHANGED <<elements, nodes, computed_size, absolute_pos, flex_child_space, pc, result,
                   call, ret, borrows>>

\* let children = node_ref.children.clone(); drop(node_ref);
ByParentDrop ==
    /\ stack # <<>>
    /\ top.fn \in {"pass1", "pass3"}
    /\ top.at = "held"
    /\ borrows' = [borrows EXCEPT ![top.node].mut = FALSE]
    /\ stack' = [stack EXCEPT ![Len(stack)].at = "children"]
    /\ UNCHANGED <<elements, nodes, computed_size, absolute_pos, flex_child_space, pc, result,
                   call, ret>>

\* one turn of `for child in children { self.<pass>(&child)?; }`
CallChild ==
    /\ stack # <<>>
    /\ top.at = "children"
    /\ top.i <= Len(nodes[top.node].children)
    /\ stack' = Append([stack EXCEPT ![Len(stack)].i = @ + 1],
                       Frame(top.fn, nodes[top.node].children[top.i], top.build))
    /\ UNCHANGED <<elements, nodes, computed_size, absolute_pos, flex_child_space, pc, result,
                   call, ret, borrows>>

\* Ok(()) at the end of calculate_size_by_parent_recursive, where parent_ref is
\* dropped, and of calculate_pos_recursive
ReturnOk ==
    /\ stack # <<>>
    /\ top.fn \in {"pass1", "pass3", "pos"}
    /\ top.at = "children"
    /\ top.i > Len(nodes[top.node].children)
    /\ borrows' = IF top.fn = "pos" THEN borrows
                  ELSE [borrows EXCEPT ![nodes[top.node].parent].shared = @ - 1]
    /\ Pop
    /\ UNCHANGED <<elements, nodes, computed_size, absolute_pos, flex_child_space, call, ret>>

\* `for child in &node.borrow().children`: the Ref lives as long as the loop
ByChildBorrow ==
    /\ stack # <<>>
    /\ top.fn = "pass2"
    /\ top.at = "enter"
    /\ IF ~CanBorrow(top.node) THEN Stop(AlreadyMutablyBorrowed)
       ELSE /\ borrows' = [borrows EXCEPT ![top.node].shared = @ + 1]
            /\ stack' = [stack EXCEPT ![Len(stack)].at = "children"]
            /\ UNCHANGED <<pc, result>>
    /\ UNCHANGED <<elements, nodes, computed_size, absolute_pos, flex_child_space, call, ret>>

\* the loop ends and drops the Ref; let mut node_ref = node.borrow_mut();
ByChildBorrowMut ==
    /\ stack # <<>>
    /\ top.fn = "pass2"
    /\ top.at = "children"
    /\ top.i > Len(nodes[top.node].children)
    /\ IF borrows[top.node] # [shared |-> 1, mut |-> FALSE] THEN Stop(AlreadyBorrowed)
       ELSE /\ borrows' = [borrows EXCEPT ![top.node] = [shared |-> 0, mut |-> TRUE]]
            /\ stack' = [stack EXCEPT ![Len(stack)].at = "held"]
            /\ UNCHANGED <<pc, result>>
    /\ UNCHANGED <<elements, nodes, computed_size, absolute_pos, flex_child_space, call, ret>>

\* the match on node_type of calculate_size_by_child_recursive;
\* cal_flex_child_size takes child.borrow() of every child in turn
ByChildVisit ==
    /\ stack # <<>>
    /\ top.fn = "pass2"
    /\ top.at = "held"
    /\ LET n == top.node
           r == SizeByChild(nodes, computed_size, n)
       IN IF /\ nodes[n].node_type = "Space"
             /\ nodes[n].specified_style.display = "Flex"
             /\ ~all_length(computed_size[n])
             /\ \E k \in Kids(n) : ~CanBorrow(k)
          THEN Stop(AlreadyMutablyBorrowed) /\ UNCHANGED computed_size
          ELSE IF r.err # NoError THEN Stop(r.err) /\ UNCHANGED computed_size
          ELSE /\ computed_size' = r.size
               /\ borrows' = [borrows EXCEPT ![n].mut = FALSE]
               /\ Pop
    /\ UNCHANGED <<elements, nodes, absolute_pos, flex_child_space, call, ret>>

\* a position pass that places nothing in a Cube node and goes on to its children
PosBorrow_CubeSkipped ==
    /\ stack # <<>>
    /\ top.fn = "pos"
    /\ top.at = "enter"
    /\ IF ~CanBorrowMut(top.node) THEN Stop(AlreadyBorrowed)
       ELSE IF nodes[top.node].specified_style.display = "Cube"
       THEN /\ stack' = [stack EXCEPT ![Len(stack)].at = "children"]
            /\ UNCHANGED <<pc, result, borrows>>
       ELSE /\ borrows' = [borrows EXCEPT ![top.node].mut = TRUE]
            /\ stack' = [stack EXCEPT ![Len(stack)].at = "held"]
            /\ UNCHANGED <<pc, result>>
    /\ UNCHANGED <<elements, nodes, computed_size, absolute_pos, flex_child_space, call, ret>>

\* let mut node_ref = node.borrow_mut(); and the match on display
PosBorrow ==
    /\ stack # <<>>
    /\ top.fn = "pos"
    /\ top.at = "enter"
    /\ IF ~CanBorrowMut(top.node) THEN Stop(AlreadyBorrowed)
       ELSE IF nodes[top.node].specified_style.display = "Cube" THEN Stop(NotYetImplemented)
       ELSE /\ borrows' = [borrows EXCEPT ![top.node].mut = TRUE]
            /\ stack' = [stack EXCEPT ![Len(stack)].at = "held"]
            /\ UNCHANGED <<pc, result>>
    /\ UNCHANGED <<elements, nodes, computed_size, absolute_pos, flex_child_space, call, ret>>

\* calculate_flex_child_positions: child.borrow() of every child in turn, the
\* positions, child.borrow_mut() of every child in turn to store them; then
\* drop(node_ref)
PosPlace ==
    /\ stack # <<>>
    /\ top.fn = "pos"
    /\ top.at = "held"
    /\ LET n == top.node
           kids == nodes[n].children
           r == calculate_flex_child_positions(nodes, computed_size, n, top.build)
       IN IF get_length(computed_size[n]).some /\ \E k \in Kids(n) : ~CanBorrow(k)
          THEN Stop(AlreadyMutablyBorrowed) /\ UNCHANGED <<absolute_pos, flex_child_space>>
          ELSE IF r.err # NoError
          THEN Stop(r.err) /\ UNCHANGED <<absolute_pos, flex_child_space>>
          ELSE IF \E k \in Kids(n) : ~CanBorrowMut(k)
          THEN /\ Stop(AlreadyBorrowed)
               /\ flex_child_space' = [flex_child_space EXCEPT ![n] = r.child_positions]
               /\ UNCHANGED absolute_pos
          ELSE /\ flex_child_space' = [flex_child_space EXCEPT ![n] = r.child_positions]
               /\ absolute_pos' =
                     [m \in DOMAIN nodes |->
                        IF \E i \in 1..Len(kids) : kids[i] = m /\ i <= Len(r.child_positions)
                        THEN r.child_positions[CHOOSE i \in 1..Len(kids) : kids[i] = m]
                        ELSE absolute_pos[m]]
               /\ borrows' = [borrows EXCEPT ![n].mut = FALSE]
               /\ stack' = [stack EXCEPT ![Len(stack)].at = "children"]
               /\ UNCHANGED <<pc, result>>
    /\ UNCHANGED <<elements, nodes, computed_size, call, ret>>

\* trees for the walk: containers that size themselves, fail, or are smaller
\* than a child, over children that resolve, fail, or hold a percentage
WalkDocuments ==
    {Document(<<>>, c, kids, <<>>) :
        c \in {Space(<<>>),
               Space(<<Decl("display", "Cube")>>),
               Space(<<Decl("size", Size3(300, 300, 300)), Decl("display", "Cube")>>),
               Space(<<Decl("size", Size3(100, 100, 15)), Decl("flex-direction", "X"),
                       Decl("align-items", AlignItems("FlexEnd", "Center"))>>)},
        kids \in SeqsUpTo({Object("crate_a", <<>>), Object("nonexistent", <<>>),
                           Object("crate_b", <<Decl("display", "Cube")>>),
                           Space(<<Decl("size", Size3(40, 40, 40)), Decl("display", "Cube")>>),
                           Space(<<Decl("size", SpaceSize(Percentage(50), Percentage(50),
                                                          Percentage(50)))>>)}, MaxKids)}

InitWalk ==
    /\ \/ elements \in WalkDocuments
       \/ elements \in NestedDocuments
       \/ elements \in SiblingDocuments
       \/ elements \in ExampleDocuments
       \/ elements \in OtherDocuments
    /\ nodes = RenderTreeNew(elements)
    /\ computed_size = [n \in DOMAIN elements |-> StyleDefault.size]
    /\ absolute_pos = [n \in DOMAIN elements |-> Dim3(0, 0, 0)]
    /\ flex_child_space = [n \in DOMAIN elements |-> <<>>]
    /\ pc = "start"
    /\ result = "running"
    /\ call = NoCall
    /\ ret = <<>>
    /\ stack = <<>>
    /\ borrows = [n \in DOMAIN elements |-> NotBorrowed]

NextWalk ==
    \/ SeedBody
    \/ EnterPass
    \/ ByParentBorrow
    \/ ByParentDrop
    \/ CallChild
    \/ ReturnOk
    \/ ByChildBorrow
    \/ ByChildBorrowMut
    \/ ByChildVisit
    \/ PosBorrow
    \/ PosPlace

SpecWalk == InitWalk /\ [][NextWalk]_vars

(***************************************************************************)
(* The pure functions, called on their own.  call holds the function and    *)
(* its arguments, ret the values it has returned.                           *)
(***************************************************************************)
MaxArg == 200      \* constructor arguments 0..MaxArg are formatted

SizeValues ==
    {Auto, Length(0), Length(100), Length(200), Percentage(0), Percentage(50), Percentage(100)}

AxisValues == {Auto, Length(100), Percentage(50)}

\* parent axes, up to lengths whose product with a percentage passes u32::MAX
ParentValues ==
    {Auto, Percentage(50), Length(0), Length(200), Length(333), Length(U32MaxDiv(PERCENT_DIV)),
     Length(U32MaxDiv(PERCENT_DIV) + 1), Length(I32_MAX)}

AssignCalls ==
    {[fn |-> "assign_priority", self |-> v, other |-> o] : v \in SizeValues, o \in SizeValues}

SpaceAssignCalls ==
    {[fn |-> "SpaceSize::assign_priority", self |-> SpaceSize(v[1], v[2], v[3]),
      other |-> SpaceSize(o[1], o[2], o[3])] :
        v \in AxisValues \X AxisValues \X AxisValues,
        o \in AxisValues \X AxisValues \X AxisValues}

DimensionCalls ==
    {[fn |-> "calculate_dimension_size", size_value |-> v, parent_size_value |-> q] :
        v \in SizeValues \cup {Percentage(33)}, q \in ParentValues}

FormatCalls ==
    {[fn |-> "to_string", ctor |-> c, arg |-> a] :
        c \in {"from_mm", "from_cm", "from_m"},
        a \in 0..MaxArg \cup {550, 551, 1500, 5000, 100000}}

PositionCalls ==
    {[fn |-> "calculate_positions_on_axis", free_space |-> f, child_sizes |-> cs,
      justify_content |-> j] :
        f \in {-15, 0, 4, 80, 90}, cs \in SeqsUpTo({1, 10}, MaxSizes), j \in JustifyContent}

\* The declarations style strings are written from: the text, what kind of
\* declaration the author wrote (one that sets a field to a value, one of
\* a property name the parser does not match, or a malformed one)
Authored(text, kind, field, value) ==
    [text |-> text, kind |-> kind, field |-> field, value |-> value]

StyleCatalogue ==
    <<Authored(<<"s", "i", "z", "e", ":", "1", "0", "m", " ", "5", "0", "%", " ", "a", "u", "t", "o">>,
              "effect", "size", SpaceSize(Length(10000), Percentage(50), Auto)),
     Authored(<<"s", "i", "z", "e", ":", "7", " ", "2", "0", "c", "m", " ", "5", "M", "M">>,
              "effect", "size", SpaceSize(Length(7), Length(200), Length(5))),
     Authored(<<" ", "d", "i", "s", "p", "l", "a", "y", " ", ":", " ", "C", "u", "b", "e", " ">>,
              "effect", "display", "Cube"),
     Authored(<<"D", "i", "s", "p", "l", "a", "y", ":", "c", "u", "b", "e">>,
              "unknown", "", 0),
     Authored(<<"j", "u", "s", "t", "i", "f", "y", "-", "c", "o", "n", "t", "e", "n", "t", ":", "s", "p", "a", "c", "e", "-", "e", "v", "e", "n", "l", "y">>,
              "effect", "justify_content", "SpaceEvenly"),
     Authored(<<"a", "l", "i", "g", "n", "-", "i", "t", "e", "m", "s", ":", "f", "l", "e", "x", "-", "e", "n", "d", " ", " ", "c", "e", "n", "t", "e", "r">>,
              "effect", "align_items", AlignItems("FlexEnd", "Center")),
     Authored(<<"f", "l", "e", "x", "-", "d", "i", "r", "e", "c", "t", "i", "o", "n", ":", "x", "-", "r", "e", "v", "e", "r", "s", "e">>,
              "effect", "flex_direction", "ReverseX"),
     Authored(<<"p", "o", "s", ":", "a", "u", "t", "o", " ", "1", "0", "c", "m", " ", "0">>,
              "effect", "position", SpaceSize(Auto, Length(100), Length(0))),
     Authored(<<"f", "l", "e", "x", "-", "b", "a", "s", "i", "s", ":", "1", "0", "0", "%">>,
              "effect", "flex_basis", Percentage(100)),
     Authored(<<"c", "o", "l", "o", "r", ":", "r", "e", "d">>,
              "unknown", "", 0),
     Authored(<<"m", "a", "r", "g", "i", "n", ":", "1", "m", " ", "2", "m">>,
              "unknown", "", 0),
     Authored(<<"i", "n", "v", "a", "l", "i", "d">>,
              "malformed", "", 0),
     Authored(<<"s", "i", "z", "e", ":", "1", "0", "m", ":", "5", "m">>,
              "malformed", "", 0),
     Authored(<<"c", "o", "l", "o", "r", ":", "r", "e", "d", ":", "b", "l", "u", "e">>,
              "malformed", "", 0),
     Authored(<<"s", "i", "z", "e", ":", "1", "0", "m", " ", "5", "m">>,
              "malformed", "", 0),
     Authored(<<"p", "o", "s", ":", "a", "u", "t", "o", " ", "a", "u", "t", "o", " ", "a", "u", "t", "o", " ", "a", "u", "t", "o">>,
              "malformed", "", 0),
     Authored(<<"a", "l", "i", "g", "n", "-", "i", "t", "e", "m", "s", ":", "c", "e", "n", "t", "e", "r">>,
              "malformed", "", 0),
     Authored(<<"s", "i", "z", "e", ":", "1", "0", "k", "m", " ", "1", "m", " ", "1", "m">>,
              "malformed", "", 0),
     Authored(<<"s", "i", "z", "e", ":", "1", "m", " ", "1", "0", "1", "%", " ", "1", "m">>,
              "malformed", "", 0),
     Authored(<<"f", "l", "e", "x", "-", "b", "a", "s", "i", "s", ":", "w", "i", "d", "e">>,
              "malformed", "", 0),
     Authored(<<"d", "i", "s", "p", "l", "a", "y", ":", "b", "l", "o", "c", "k">>,
              "malformed", "", 0),
     Authored(<<"f", "l", "e", "x", "-", "d", "i", "r", "e", "c", "t", "i", "o", "n", ":", "w">>,
              "malformed", "", 0),
     Authored(<<"j", "u", "s", "t", "i", "f", "y", "-", "c", "o", "n", "t", "e", "n", "t", ":">>,
              "malformed", "", 0)>>

MaxDecls == 2      \* declarations in a style string

RECURSIVE JoinDeclarations(_)
\* the declarations, each followed by ';' except the last
JoinDeclarations(texts) ==
    IF texts = <<>> THEN <<>>
    ELSE IF Len(texts) = 1 THEN texts[1]
    ELSE texts[1] \o <<";">> \o JoinDeclarations(Tail(texts))

StyleCalls ==
    {[fn |-> "from_style_string", style_str |-> JoinDeclarations(texts)] :
        texts \in SeqsUpTo({StyleCatalogue[i].text : i \in 1..Len(StyleCatalogue)}, MaxDecls)}


\* operands up to u32::MAX, and divisors
LengthOperands ==
    {Word(0), Word(1), Word(2), Word(100), Word(U16_MAX), Word(U16_MAX + 1), Word(I32_MAX),
     saturating_add(Word(I32_MAX), Word(1)), saturating_sub(U32_MAX, Word(1)), U32_MAX}

LengthDivisors == {Word(0), Word(1), Word(2), Word(3), Word(10), Word(1000), Word(U16_MAX + 1)}

LengthCalls ==
    {[fn |-> "Length::op", op |-> op, a |-> a, b |-> b] :
        op \in {"add", "add_assign", "sub", "mul"}, a \in LengthOperands, b \in LengthOperands}
    \cup {[fn |-> "Length::op", op |-> "div", a |-> a, b |-> k] :
            a \in LengthOperands, k \in LengthDivisors}

MaxSummed == 3     \* lengths in a summed sequence

SumCalls ==
    {[fn |-> "Length::sum", items |-> items] :
        items \in SeqsUpTo({Word(0), Word(100), Word(I32_MAX), U32_MAX}, MaxSummed)}

InitFn ==
    /\ \/ call \in AssignCalls
       \/ call \in SpaceAssignCalls
       \/ call \in DimensionCalls
       \/ call \in FormatCalls
       \/ call \in PositionCalls
       \/ call \in StyleCalls
       \/ call \in LengthCalls
       \/ call \in SumCalls
    /\ ret = <<>>
    /\ elements = <<>>
    /\ nodes = <<>>
    /\ computed_size = <<>>
    /\ absolute_pos = <<>>
    /\ flex_child_space = <<>>
    /\ pc = "idle"
    /\ result = "idle"
    /\ stack = <<>>
    /\ borrows = <<>>

\* self.assign_priority(other), again on the value the last call left
AssignPriority ==
    /\ call.fn = "assign_priority"
    /\ Len(ret) < MaxMerges
    /\ ret' = Append(ret, assign_priority(IF ret = <<>> THEN call.self ELSE ret[Len(ret)],
                                          call.other))
    /\ UNCHANGED <<call, layout_vars>>

SpaceAssignPriority ==
    /\ call.fn = "SpaceSize::assign_priority"
    /\ ret = <<>>
    /\ ret' = <<space_assign_priority(call.self, call.other)>>
    /\ UNCHANGED <<call, layout_vars>>

CalculateDimensionSize ==
    /\ call.fn = "calculate_dimension_size"
    /\ ret = <<>>
    /\ ret' = <<calculate_dimension_size(call.size_value, call.parent_size_value)>>
    /\ UNCHANGED <<call, layout_vars>>

Construct(ctor, arg) ==
    CASE ctor = "from_mm" -> from_mm(arg)
      [] ctor = "from_cm" -> from_cm(arg)
      [] ctor = "from_m" -> from_m(arg)

\* Length::from_xx(arg).to_string()
LengthToString ==
    /\ call.fn = "to_string"
    /\ ret = <<>>
    /\ ret' = <<LengthDisplay(Construct(call.ctor, call.arg))>>
    /\ UNCHANGED <<call, layout_vars>>

\* text.parse::<Length>() of the text to_string gave
ParseBack ==
    /\ call.fn = "to_string"
    /\ Len(ret) = 1
    /\ ret' = Append(ret, LengthFromStr(ret[1]))
    /\ UNCHANGED <<call, layout_vars>>

PositionsOnAxis ==
    /\ call.fn = "calculate_positions_on_axis"
    /\ ret = <<>>
    /\ ret' = <<calculate_positions_on_axis(call.free_space, call.child_sizes,
                                            call.justify_content)>>
    /\ UNCHANGED <<call, layout_vars>>

\* Style::from_style_string(style_str)
FromStyleString ==
    /\ call.fn = "from_style_string"
    /\ ret = <<>>
    /\ ret' = <<StyleFromText(call.style_str)>>
    /\ UNCHANGED <<call, layout_vars>>

\* a op b on Lengths
LengthOp ==
    /\ call.fn = "Length::op"
    /\ ret = <<>>
    /\ ret' = <<LengthOperator(call.op, call.a, call.b)>>
    /\ UNCHANGED <<call, layout_vars>>

\* items.iter().copied().sum()
SumLengths ==
    /\ call.fn = "Length::sum"
    /\ ret = <<>>
    /\ ret' = <<LengthSum(call.items, Word(0))>>
    /\ UNCHANGED <<call, layout_vars>>

NextFn ==
    \/ AssignPriority
    \/ SpaceAssignPriority
    \/ CalculateDimensionSize
    \/ LengthToString
    \/ ParseBack
    \/ PositionsOnAxis
    \/ FromStyleString
    \/ LengthOp
    \/ SumLengths

SpecFn == InitFn /\ [][NextFn]_vars

(***************************************************************************)
(* Properties of the pure functions (checked under SpecFn)                  *)
(***************************************************************************)
\* what Length > Percentage > Auto asks of merging o into v
PriorityRule(v, o) ==
    CASE o.tag = "Length" -> o
      [] o.tag = "Percentage" -> IF v.tag = "Length" THEN v ELSE o
      [] o.tag = "Auto" -> v

\* C1: assign_priority follows Length > Percentage > Auto on a value and on
\* each axis of a SpaceSize: merging Length(L) leaves Length(L), merging Auto
\* leaves the value as it was, merging Percentage(p) changes the value only
\* when it is not a Length; merging the same value a second time changes nothing.
C1_AssignPriority ==
    /\ (call.fn = "assign_priority" /\ ret # <<>>) =>
          /\ ret[1] = PriorityRule(call.self, call.other)
          /\ call.other.tag = "Length" => ret[1] = call.other
          /\ call.other.tag = "Auto" => ret[1] = call.self
          /\ (call.other.tag = "Percentage" /\ call.self.tag = "Length") => ret[1] = call.self
          /\ \A i \in 2..Len(ret) : ret[i] = ret[1]
    /\ (call.fn = "SpaceSize::assign_priority" /\ ret # <<>>) =>
          \A a \in Axes : ret[1][a] = PriorityRule(call.self[a], call.other[a])

\* a Percentage was merged twice into a Length, and a SpaceSize merge met all
\* three kinds of value
C1_Witness ==
    \/ /\ call.fn = "assign_priority"
       /\ Len(ret) = 2
       /\ call.self.tag = "Length"
       /\ call.other.tag = "Percentage"
    \/ /\ call.fn = "SpaceSize::assign_priority"
       /\ ret # <<>>
       /\ call.self = SpaceSize(Length(100), Percentage(50), Auto)
       /\ call.other = SpaceSize(Percentage(50), Auto, Length(100))

\* floor(len * p / 100) without forming the product
PercentOf(len, p) == (len \div PERCENT_DIV) * p + ((len % PERCENT_DIV) * p) \div PERCENT_DIV

\* C2: calculate_dimension_size(v, parent): Length(L) stays Length(L), Auto stays
\* Auto, Percentage(p) becomes Length(floor(parent_len * p / 100)) under a Length
\* parent and Auto under an Auto or Percentage parent.
C2_DimensionSize ==
    (call.fn = "calculate_dimension_size" /\ ret # <<>>) =>
        ret[1] = CASE call.size_value.tag = "Length" -> call.size_value
                   [] call.size_value.tag = "Auto" -> Auto
                   [] call.size_value.tag = "Percentage" ->
                        IF call.parent_size_value.tag = "Length"
                        THEN Length(PercentOf(call.parent_size_value.v, call.size_value.v))
                        ELSE Auto

\* the offsets a call of calculate_positions_on_axis returned, as stored (as u32)
StoredOffsets == [i \in 1..Len(ret[1]) |-> F64AsU32(ret[1][i])]

\* the main-axis length of the container of a call
ContainerLength == call.free_space + TotalChildSize(call.child_sizes, 0)

\* C6: space-between in a container of 100mm: two children of 10mm are placed
\* at 0 and 90, a single child at 50; for n >= 2 children the first child is at 0
\* and the last child's trailing edge is at the container end.
C6_SpaceBetween ==
    (/\ call.fn = "calculate_positions_on_axis"
     /\ call.justify_content = "SpaceBetween"
     /\ ret # <<>>) =>
        LET n == Len(call.child_sizes)
        IN /\ (ContainerLength = 100 /\ call.child_sizes = <<10, 10>>) =>
                  StoredOffsets = <<0, 90>>
           /\ (ContainerLength = 100 /\ n = 1) => StoredOffsets = <<50>>
           /\ n >= 2 =>
                  /\ StoredOffsets[1] = 0
                  /\ StoredOffsets[n] + call.child_sizes[n] = ContainerLength

IsUnitChar(ch) == ~IsDigit(ch)
FormattedNumber(text) == ParseDecimal(SelectSeq(text, IsDigit), 0)
FormattedUnit(text) == SelectSeq(text, IsUnitChar)
UnitMultiplier(unit) ==
    CASE unit = <<"m">> -> MM_PER_M
      [] unit = <<"c", "m">> -> MM_PER_CM
      [] unit = <<"m", "m">> -> 1
      [] OTHER -> 0

\* what every formatted Length satisfies: number times unit is the stored
\* millimetres, the unit is the largest that divides them, and the text parses
\* back to the same Length
FormatLaw ==
    (call.fn = "to_string" /\ ret # <<>>) =>
        LET mm == Construct(call.ctor, call.arg)
            unit == UnitMultiplier(FormattedUnit(ret[1]))
        IN /\ FormattedNumber(ret[1]) * unit = mm
           /\ unit = MM_PER_M <=> mm % MM_PER_M = 0
           /\ unit = MM_PER_CM <=> (mm % MM_PER_CM = 0 /\ mm % MM_PER_M # 0)
           /\ Len(ret) = 2 => ret[2] = [ok |-> TRUE, mm |-> mm]

Formats(ctor, arg, text) ==
    (call.fn = "to_string" /\ call.ctor = ctor /\ call.arg = arg /\ ret # <<>>) => ret[1] = text

\* C7 as written: from_cm(150) and from_mm(1500) format as "15cm", from_mm(551)
\* as "551mm"; number times unit is the stored millimetres and the text parses
\* back to the same Length.
C7_AsWritten ==
    /\ Formats("from_cm", 150, <<"1", "5", "c", "m">>)
    /\ Formats("from_mm", 1500, <<"1", "5", "c", "m">>)
    /\ Formats("from_mm", 551, <<"5", "5", "1", "m", "m">>)
    /\ FormatLaw

\* C7: Length formatting collapses to the largest exact unit: from_cm(150) and
\* from_mm(1500) both hold 1500mm and format as "150cm", from_mm(551) formats as
\* "551mm"; number times unit is the stored millimetres and the text parses back
\* to the same Length.
C7_Formatting ==
    /\ Formats("from_cm", 150, <<"1", "5", "0", "c", "m">>)
    /\ Formats("from_mm", 1500, <<"1", "5", "0", "c", "m">>)
    /\ Formats("from_mm", 551, <<"5", "5", "1", "m", "m">>)
    /\ FormatLaw

\* from_cm(150) was formatted and parsed back
C7_Witness ==
    /\ call.fn = "to_string"
    /\ call.ctor = "from_cm"
    /\ call.arg = 150
    /\ Len(ret) = 2

(***************************************************************************)
(* Properties of calculate() (checked under Spec)                           *)
(***************************************************************************)
RECURSIVE Under(_, _)
\* n is b or a descendant of b
Under(n, b) == n = b \/ (nodes[n].parent # 0 /\ Under(nodes[n].parent, b))

\* the nodes calculate() visits
BodyNodes == IF body_node = 0 THEN {} ELSE {n \in DOMAIN nodes : Under(n, body_node)}

RECURSIVE SumOf(_, _)
\* the sum over the nodes ns of their computed length on axis a
SumOf(ns, a) ==
    IF ns = {} THEN 0
    ELSE LET k == CHOOSE k \in ns : TRUE
         IN computed_size[k][a].v + SumOf(ns \ {k}, a)

\* the largest computed length on axis a among the nodes ns, 0 for none
MaxOf(ns, a) ==
    IF ns = {} THEN 0
    ELSE CHOOSE v \in {computed_size[k][a].v : k \in ns} :
            \A k \in ns : computed_size[k][a].v <= v

\* a Flex Space whose specified size is Auto on every axis and whose children
\* all have Length sizes
AutoFlexSpace(n) ==
    /\ n \in BodyNodes
    /\ nodes[n].node_type = "Space"
    /\ nodes[n].specified_style.display = "Flex"
    /\ nodes[n].specified_style.size = SpaceSize(Auto, Auto, Auto)
    /\ \A k \in Kids(n) : all_length(computed_size[k])

\* C3: after Pass 2, a Flex Space whose specified size is Auto on all axes and
\* whose children all have Length sizes has, on the axis of its flex-direction
\* (forward or reverse), the sum of its children's sizes and, on the two other
\* axes, the maximum of its children's sizes.
C3_FlexSumMax ==
    pc = "pass3" =>
        \A n \in DOMAIN nodes :
            AutoFlexSpace(n) =>
                \A a \in Axes :
                    computed_size[n][a] =
                        IF a = MainAxis(nodes[n].specified_style.flex_direction)
                        THEN Length(SumOf(Kids(n), a))
                        ELSE Length(MaxOf(Kids(n), a))

\* Pass 2 gave a z container with children (10,20,30) and (5,25,40) the size
\* (10,25,70)
C3_Witness ==
    /\ pc = "pass3"
    /\ \E n \in DOMAIN nodes :
          /\ AutoFlexSpace(n)
          /\ MainAxis(nodes[n].specified_style.flex_direction) = "z"
          /\ Len(nodes[n].children) = 2
          /\ computed_size[nodes[n].children[1]] = Size3(10, 20, 30)
          /\ computed_size[nodes[n].children[2]] = Size3(5, 25, 40)
          /\ computed_size[n] = Size3(10, 25, 70)

\* the Cube Space nodes of the body subtree with an Auto axis in their computed size
AutoCubes ==
    {n \in BodyNodes : /\ nodes[n].node_type = "Space"
                       /\ nodes[n].specified_style.display = "Cube"
                       /\ has_auto(computed_size[n])}

\* the Items of the body subtree whose name the catalogue does not resolve
MissingItems ==
    {n \in BodyNodes : nodes[n].node_type = "Item" /\ ~get_space_size(nodes[n].text_content).ok}

\* C4: Pass 2 never completes while a Cube Space of the body subtree has an Auto
\* axis, and when it reaches such a node (no catalogue lookup fails first)
\* calculate() returns CubeSizeError.
C4_CubeStrict ==
    [][pc = "pass2" =>
          /\ pc' = "pass3" => AutoCubes = {}
          /\ (AutoCubes # {} /\ MissingItems = {}) =>
                (pc' = "done" /\ result' = CubeSizeError)]_vars

\* calculate() returned CubeSizeError for a tree with a Cube Space without a size
C4_Witness ==
    /\ pc = "done"
    /\ result = CubeSizeError
    /\ AutoCubes # {}

\* the catalogue's bounding box of an Item node
CatalogueSize(n) == from_dim3_length(get_space_size(nodes[n].text_content).dim)

\* a leaf Item without style of its own
PlainItem(n) ==
    /\ nodes[n].node_type = "Item"
    /\ nodes[n].children = <<>>
    /\ nodes[n].specified_style = StyleDefault

\* the documented scene: inside a document, a body whose only child is a Space
\* with flex-direction x and nothing else declared, holding two plain Items of
\* catalogue sizes (1m,1m,0.1m) and (0.1m,0.1m,0.1m) in that order
TableAndBottles(space, first, second) ==
    /\ body_node # 0
    /\ nodes[body_node].parent # 0
    /\ nodes[body_node].children = <<space>>
    /\ nodes[space].node_type = "Space"
    /\ nodes[space].specified_style = [StyleDefault EXCEPT !.flex_direction = "X"]
    /\ nodes[space].children = <<first, second>>
    /\ PlainItem(first)
    /\ PlainItem(second)
    /\ CatalogueSize(first) = Size3(1000, 1000, 100)
    /\ CatalogueSize(second) = Size3(100, 100, 100)

\* C5: for that scene calculate() returns Ok, the Space's computed size is
\* (1.1m,1m,0.1m), the first Item is stored at (0,0,0) and the second at (1m,0,0).
C5_EndToEnd ==
    \A space, first, second \in DOMAIN nodes :
        (pc = "done" /\ TableAndBottles(space, first, second)) =>
            /\ result = "Ok"
            /\ computed_size[space] = Size3(1100, 1000, 100)
            /\ absolute_pos[first] = Dim3(0, 0, 0)
            /\ absolute_pos[second] = Dim3(from_m(1), 0, 0)

\* calculate() has returned for the documented scene
C5_Witness ==
    /\ pc = "done"
    /\ \E space, first, second \in DOMAIN nodes : TableAndBottles(space, first, second)

\* C8: after calculate() returns Ok on a tree with a body, the body's computed
\* size is 100m on every axis and its children's percentages are resolved
\* against 100m.
C8_BodySize ==
    (pc = "done" /\ result = "Ok" /\ body_node # 0) =>
        /\ computed_size[body_node] =
              SpaceSize(Length(from_m(100)), Length(from_m(100)), Length(from_m(100)))
        /\ \A k \in Kids(body_node) : \A a \in Axes :
              nodes[k].specified_style.size[a].tag = "Percentage" =>
                  computed_size[k][a] =
                      Length(PercentOf(from_m(100), nodes[k].specified_style.size[a].v))

\* C9: after calculate() returns Ok, every Item's computed size is the bounding
\* box get_space_size returns for its name, whatever its own style declares.
C9_ItemSize ==
    (pc = "done" /\ result = "Ok") =>
        \A n \in BodyNodes : nodes[n].node_type = "Item" => computed_size[n] = CatalogueSize(n)

\* the main axis of the parent of n
ParentMain(n) == MainAxis(nodes[nodes[n].parent].specified_style.flex_direction)

\* a node of the body subtree under a Flex parent, with a Length specified on
\* the parent's main axis
FlexChildWithLength(n) ==
    /\ n \in BodyNodes
    /\ nodes[n].parent # 0
    /\ nodes[nodes[n].parent].specified_style.display = "Flex"
    /\ nodes[n].specified_style.size[ParentMain(n)].tag = "Length"

\* a top-down pass has just completed
AfterTopDown == pc \in {"pass2", "pos"}

C11_AuthorSizeWins ==
    pc = "pass3" =>
        \A n \in BodyNodes : \A a \in Axes :
            (/\ nodes[n].node_type = "Space"
             /\ nodes[n].specified_style.display = "Flex"
             /\ nodes[n].specified_style.size[a].tag = "Length"
             /\ \E b \in Axes \ {a} : nodes[n].specified_style.size[b].tag # "Length") =>
                computed_size[n][a] = nodes[n].specified_style.size[a]

(***************************************************************************)
(* Style strings                                                            *)
(***************************************************************************)
\* the declarations of the called style string, as their author meant them
AuthoredDeclarations ==
    IF call.style_str = <<>> THEN <<>>
    ELSE LET pieces == split(call.style_str, ";")
         IN [i \in 1..Len(pieces) |->
                StyleCatalogue[CHOOSE k \in 1..Len(StyleCatalogue) :
                                   StyleCatalogue[k].text = pieces[i]]]

RECURSIVE Effects(_, _)
\* the style after the declarations that set a field, in the order written
Effects(ds, style) ==
    IF ds = <<>> THEN style
    ELSE Effects(Tail(ds), IF ds[1].kind = "effect"
                           THEN [style EXCEPT ![ds[1].field] = ds[1].value]
                           ELSE style)

\* C12: from_style_string returns an error whenever one declaration of the string,
\* at any place in it, is malformed (not one ':', a wrong number of values, an
\* unparsable length or percentage, an unknown literal); otherwise it returns the
\* default style with every declaration of a known property applied in order, the
\* declarations of unknown properties being passed over.
C12_ErrorContract ==
    (call.fn = "from_style_string" /\ ret # <<>>) =>
        LET ds == AuthoredDeclarations
        IN IF \E i \in 1..Len(ds) : ds[i].kind = "malformed"
           THEN ~ret[1].ok
           ELSE ret[1].ok /\ ret[1].style = Effects(ds, StyleDefault)

\* an unknown property before a declaration that takes effect
C12_Witness ==
    /\ call.fn = "from_style_string"
    /\ ret # <<>>
    /\ Len(AuthoredDeclarations) = MaxDecls
    /\ AuthoredDeclarations[1].kind = "unknown"
    /\ AuthoredDeclarations[MaxDecls].kind = "effect"
    /\ ret[1].ok
    /\ ret[1].style # StyleDefault

(***************************************************************************)
(* Construction                                                             *)
(***************************************************************************)
\* the style attribute the element wrote has a declaration nobody can read: one
\* that is not `property:value`, or a known property with an unparsable value
BadAttribute(n) ==
    \E i \in 1..Len(elements[n].style) :
        \/ elements[n].style[i] = Malformed
        \/ elements[n].style[i].property \in KnownProperties /\ ~elements[n].style[i].ok

\* C13: construction gives every element its node, whatever its style attribute:
\* a node is linked to its parent and to all its child elements in document order,
\* and a node that is not the body and whose style attribute fails to parse has
\* the default style (Flex, z-reverse, sizes and flex-basis Auto).
C13_ConstructionNeverFails ==
    elements # <<>> =>
        /\ DOMAIN nodes = DOMAIN elements
        /\ \A n \in DOMAIN elements :
              /\ nodes[n].parent = elements[n].parent
              /\ {nodes[n].children[k] : k \in 1..Len(nodes[n].children)}
                    = {c \in DOMAIN elements : elements[c].parent = n}
              /\ \A k \in 1..Len(nodes[n].children) - 1 :
                    nodes[n].children[k] < nodes[n].children[k + 1]
              /\ (BadAttribute(n) /\ elements[n].name # "body") =>
                    /\ nodes[n].specified_style = StyleDefault
                    /\ nodes[n].specified_style.display = "Flex"
                    /\ nodes[n].specified_style.flex_direction = "ReverseZ"
                    /\ nodes[n].specified_style.size = SpaceSize(Auto, Auto, Auto)
                    /\ nodes[n].specified_style.flex_basis = Auto

\* a container with an unreadable style attribute and children under it
C13_Witness ==
    /\ elements # <<>>
    /\ \E n \in DOMAIN elements :
          /\ BadAttribute(n)
          /\ elements[n].name # "body"
          /\ nodes[n].children # <<>>
          /\ nodes[n].specified_style = StyleDefault

(***************************************************************************)
(* Catalogue lookups                                                        *)
(***************************************************************************)
\* the ancestors of node n inside the body subtree
AncestorsOf(n) == {a \in BodyNodes : a # n /\ Under(n, a)}

\* C14: for a tree with an Item in the body subtree whose catalogue lookup fails,
\* calculate() never returns Ok, and the bottom-up pass ends calculate() with an
\* error leaving the computed size of every ancestor of such an Item as it was.
C14_MissingIsFatal ==
    [][MissingItems # {} =>
          /\ ~(pc' = "done" /\ result' = "Ok")
          /\ pc = "pass2" =>
                /\ pc' = "done"
                /\ result' \in {InvalidStructure, CubeSizeError}
                /\ \A m \in MissingItems : \A a \in AncestorsOf(m) :
                      computed_size'[a] = computed_size[a]]_vars

\* calculate() returned the lookup error after a sibling before the missing Item
\* had its catalogue size
C14_Witness ==
    /\ pc = "done"
    /\ result = InvalidStructure
    /\ \E m \in MissingItems : \E k \in BodyNodes :
          /\ k < m
          /\ nodes[k].node_type = "Item"
          /\ nodes[k].parent = nodes[m].parent
          /\ all_length(computed_size[k])

(***************************************************************************)
(* Length arithmetic                                                        *)
(***************************************************************************)
\* a u32: four limbs, each below the limb base
IsU32(r) == Len(r) = 4 /\ \A i \in 1..4 : r[i] \in 0..(LimbBase - 1)

\* min(x, 2^32 - 1) of an exact number x
Capped(x) == IF NatLess(U32_MAX, x) THEN U32_MAX ELSE Low32(x)

RECURSIVE ExactSum(_)
ExactSum(items) ==
    IF items = <<>> THEN <<0>> ELSE NatAdd(items[1], ExactSum(Tail(items)), 1, 0)

\* C15: every Length operator returns a u32.  a + b and a += b give
\* min(a + b, 2^32 - 1); a - b gives 0 when a < b and otherwise the r with
\* r + b = a; a * k gives min(a * k, 2^32 - 1); a / 0 gives 0 and a / k the q
\* with q * k <= a < q * k + k; the sum of a sequence is min(total, 2^32 - 1).
C15_Saturating ==
    /\ (call.fn = "Length::op" /\ ret # <<>>) =>
          LET a == call.a
              b == call.b
              r == ret[1]
          IN /\ IsU32(r)
             /\ call.op \in {"add", "add_assign"} => r = Capped(NatAdd(a, b, 1, 0))
             /\ call.op = "sub" =>
                   IF NatLess(a, b) THEN r = Word(0)
                   ELSE NatAdd(r, b, 1, 0) = a \o <<0>>
             /\ call.op = "mul" => r = Capped(NatMul(a, b))
             /\ call.op = "div" =>
                   IF b = Word(0) THEN r = Word(0)
                   ELSE /\ ~NatLess(a, NatMul(r, b))
                        /\ NatLess(a, NatAdd(NatMul(r, b), b, 1, 0))
    /\ (call.fn = "Length::sum" /\ ret # <<>>) =>
          /\ IsU32(ret[1])
          /\ ret[1] = Capped(ExactSum(call.items))

\* two lengths below the bound whose sum passes it
C15_Witness ==
    /\ call.fn = "Length::op"
    /\ call.op = "add"
    /\ ret # <<>>
    /\ call.a # U32_MAX
    /\ call.b # U32_MAX
    /\ NatLess(U32_MAX, NatAdd(call.a, call.b, 1, 0))
    /\ ret[1] = U32_MAX

(***************************************************************************)
(* Author styles                                                            *)
(***************************************************************************)
\* the field of a style a property sets
FieldOf(style, property) ==
    CASE property = "size" -> style.size
      [] property = "display" -> style.display
      [] property = "justify-content" -> style.justify_content
      [] property = "align-items" -> style.align_items
      [] property = "flex-direction" -> style.flex_direction
      [] property = "pos" -> style.position
      [] property = "flex-basis" -> style.flex_basis

\* the last declaration of a known property in the style attribute of element n
LastDeclared(n, i) ==
    /\ elements[n].style[i].property \in KnownProperties
    /\ \A j \in (i + 1)..Len(elements[n].style) :
          elements[n].style[j].property # elements[n].style[i].property

\* the author's declarations are what the nodes in ns have in their specified
\* style, and a property the author left out has the default
AuthorStyleMerged(ns) ==
    \A n \in ns :
        ~BadAttribute(n) =>
            /\ \A i \in 1..Len(elements[n].style) :
                  LastDeclared(n, i) =>
                      FieldOf(nodes[n].specified_style, elements[n].style[i].property)
                          = elements[n].style[i].value
            /\ \A p \in KnownProperties :
                  (\A i \in 1..Len(elements[n].style) : elements[n].style[i].property # p) =>
                      FieldOf(nodes[n].specified_style, p) =
                          IF elements[n].name = "body" /\ p = "size"
                          THEN SpaceSize(Length(from_m(BODY_STYLE_SIZE_M)),
                                         Length(from_m(BODY_STYLE_SIZE_M)),
                                         Length(from_m(BODY_STYLE_SIZE_M)))
                          ELSE FieldOf(StyleDefault, p)

\* C16: for every element, body included, whose style attribute parses, each
\* property declared in the attribute has the declared value in the node's
\* specified style and each undeclared property has the injected default.
C16_AuthorStyleMerged == AuthorStyleMerged(DOMAIN elements)

(***************************************************************************)
(* Stored positions                                                         *)
(***************************************************************************)
\* the place of node n among the children of its parent
IndexInParent(n) ==
    CHOOSE i \in 1..Len(nodes[nodes[n].parent].children) : nodes[nodes[n].parent].children[i] = n

\* the offset the position pass computed for node n inside its parent
OffsetInParent(n) == flex_child_space[nodes[n].parent][IndexInParent(n)]

\* C17: after calculate() returned Ok, the position stored for every node below
\* body is, on each axis, the position stored for its parent plus the node's
\* offset inside that parent.
C17_AbsolutePositions ==
    (pc = "done" /\ result = "Ok") =>
        \A n \in BodyNodes \ {body_node} : \A a \in Axes :
            absolute_pos[n][a] = absolute_pos[nodes[n].parent][a] + OffsetInParent(n)[a]

(***************************************************************************)
(* Percentages resolved by the second top-down pass                         *)
(***************************************************************************)
\* node n is a Flex Space under a Flex Space and declares a percentage on axis a
PercentChild(n, a) ==
    /\ n \in BodyNodes \ {body_node}
    /\ nodes[n].node_type = "Space"
    /\ nodes[n].specified_style.display = "Flex"
    /\ nodes[nodes[n].parent].node_type = "Space"
    /\ nodes[nodes[n].parent].specified_style.display = "Flex"
    /\ nodes[n].specified_style.size[a].tag = "Percentage"

\* the sizes Pass 1 leaves for the tree: the state in which Pass 2 starts
SizesAfterPass1 ==
    calculate_size_by_parent_recursive(nodes,
        [n \in DOMAIN nodes |->
            IF n = body_node
            THEN SpaceSize(Length(from_m(BODY_SEED_M)), Length(from_m(BODY_SEED_M)),
                           Length(from_m(BODY_SEED_M)))
            ELSE StyleDefault.size],
        body_node).size

\* the parent of the percentage child n was Auto on axis a after Pass 1 and is a
\* Length after Pass 2
StuckThenSized(n, a) ==
    /\ PercentChild(n, a)
    /\ SizesAfterPass1[nodes[n].parent][a] = Auto
    /\ computed_size[nodes[n].parent][a].tag = "Length"

\* in the sizes size, node n has its percentage of the parent's size on axis a
PercentageOfParent(size, n, a) ==
    size[n][a] = Length(LenMulDiv(size[nodes[n].parent][a].v,
                                  nodes[n].specified_style.size[a].v, PERCENT_DIV))

\* C18 as written: whatever its flex-basis, a percentage child whose parent was
\* Auto after Pass 1 and a Length after Pass 2 has, after Pass 3, that percentage
\* of the parent's final size.
C18_AsWritten ==
    [][/\ pc = "pass2" => computed_size = SizesAfterPass1
       /\ (pc = "pass3" /\ pc' = "pos") =>
             \A n \in BodyNodes \ {body_node} : \A a \in Axes :
                 StuckThenSized(n, a) => PercentageOfParent(computed_size', n, a)]_vars

\* node n has a Length flex-basis and a is the main axis of its parent
BasisOnAxis(n, a) ==
    /\ nodes[n].specified_style.flex_basis.tag = "Length"
    /\ a = MainAxis(nodes[nodes[n].parent].specified_style.flex_direction)

\* the flex-basis where it is a Length on the parent's main axis, the percentage
\* of the parent's size elsewhere
BasisOrPercentage(size, n, a) ==
    IF BasisOnAxis(n, a)
    THEN size[n][a] = nodes[n].specified_style.flex_basis
    ELSE PercentageOfParent(size, n, a)

\* C18: a Flex Space child of a Flex Space that declares Percentage(p) on an axis
\* where the parent was Auto after Pass 1 and a Length after Pass 2 has, after
\* Pass 3, Length(P * p / 100) on that axis (P the parent's final size), unless
\* the axis is the parent's main axis and the child's flex-basis is a Length,
\* which is then its size.
C18_PercentResolved ==
    [][/\ pc = "pass2" => computed_size = SizesAfterPass1
       /\ (pc = "pass3" /\ pc' = "pos") =>
             \A n \in BodyNodes \ {body_node} : \A a \in Axes :
                 StuckThenSized(n, a) => BasisOrPercentage(computed_size', n, a)]_vars

\* after Pass 3, a percentage child without flex-basis under a parent that was
\* Auto after Pass 1 and got a size from its children
C18_Witness ==
    /\ pc = "pos"
    /\ \E n \in BodyNodes \ {body_node} : \E a \in Axes :
          /\ StuckThenSized(n, a)
          /\ nodes[n].specified_style.flex_basis = Auto
          /\ computed_size[nodes[n].parent][a].v > 1
          /\ PercentageOfParent(computed_size, n, a)
          /\ computed_size[n][a].v > 0

(***************************************************************************)
(* Sizes left unresolved by the three passes                                *)
(***************************************************************************)
\* node n declares a percentage on axis a of a parent that declares a percentage
\* of a grandparent whose size on that axis only its children decide
TwoRoundTrips(n, a) ==
    /\ PercentChild(n, a)
    /\ PercentChild(nodes[n].parent, a)
    /\ nodes[nodes[nodes[n].parent].parent].specified_style.size[a] = Auto

\* C19 as written, for the trees the claim is about: when calculate() has
\* returned for a tree with a size that depends on more than one round trip, it
\* has returned the position pass's 'Unable to calculate the size' error.
C19_AsWritten ==
    (pc = "done" /\ \E n \in BodyNodes \ {body_node} : \E a \in Axes : TwoRoundTrips(n, a)) =>
        result = UnableToCalculate

\* C19: when Pass 1, Pass 2 and Pass 3 have all succeeded, every node of the
\* body subtree has a Length on every axis, and calculate() never returns the
\* 'Unable to calculate the size' error.
C19_FlexResolved ==
    /\ pc = "pos" => \A n \in BodyNodes : all_length(computed_size[n])
    /\ result # UnableToCalculate

\* the three passes succeeded on a tree with a size two round trips away
C19_Witness ==
    /\ pc = "pos"
    /\ \E n \in BodyNodes \ {body_node} : \E a \in Axes : TwoRoundTrips(n, a)
    /\ \A n \in BodyNodes : all_length(computed_size[n])

(***************************************************************************)
(* Placement along the main axis                                            *)
(***************************************************************************)
\* the sum of the first k child sizes of the call
SizesBefore(k) == TotalChildSize(SubSeq(call.child_sizes, 1, k), 0)

\* the whole millimetres of the reference offset of child i: the sizes before it
\* plus the whole part of its share of the free space F among n children
ReferenceOffset(i) ==
    LET n == Len(call.child_sizes)
        F == call.free_space
    IN SizesBefore(i - 1) +
       CASE call.justify_content = "FlexStart" -> 0
         [] call.justify_content = "FlexEnd" -> F
         [] call.justify_content = "Center" -> F \div 2
         [] call.justify_content = "SpaceAround" -> ((2 * i - 1) * F) \div (2 * n)
         [] call.justify_content = "SpaceEvenly" -> (i * F) \div (n + 1)

\* C20: for n >= 1 children and free space F >= 0, flex-start, flex-end, center,
\* space-around and space-evenly return one offset per child, in child order,
\* and each offset, stored in whole millimetres, is the reference offset: the
\* start (0, F, F/2, F/(2n), F/(n+1)) plus the sizes of the children before it
\* plus, for the spaced modes, one gap (F/n, F/(n+1)) per child before it.
C20_ReferencePlacement ==
    (/\ call.fn = "calculate_positions_on_axis"
     /\ call.justify_content # "SpaceBetween"
     /\ Len(call.child_sizes) >= 1
     /\ call.free_space >= 0
     /\ ret # <<>>) =>
        /\ Len(ret[1]) = Len(call.child_sizes)
        /\ \A i \in 1..Len(call.child_sizes) : StoredOffsets[i] = ReferenceOffset(i)

(***************************************************************************)
(* The position pass: reverse directions and the cross axes                 *)
(***************************************************************************)
\* the Flex nodes of the body subtree whose children the position pass has placed
Placed == {n \in BodyNodes : flex_child_space[n] # <<>>}

\* the computed size of child i of n, and of n itself, as Dim3 of lengths
KidDim(n, i) == get_length(computed_size[nodes[n].children[i]]).dim
OwnDim(n) == get_length(computed_size[n]).dim

\* the forward direction on the main axis of a direction
Forward(direction) ==
    CASE MainAxis(direction) = "x" -> "X"
      [] MainAxis(direction) = "y" -> "Y"
      [] MainAxis(direction) = "z" -> "Z"

\* what the children of n would be given if n's direction were the forward one
ForwardPlacement(n) ==
    FlexChildPositions([nodes[n].specified_style EXCEPT
                            !.flex_direction = Forward(nodes[n].specified_style.flex_direction)],
                       OwnDim(n), [i \in 1..Len(nodes[n].children) |-> KidDim(n, i)],
                       "unchecked").child_positions

\* C21: in a container with a reverse flex direction, child i of n children is
\* stored at the main-axis offset which the forward direction gives to child
\* n-1-i (0-based), and at the cross-axis offsets which the forward direction
\* gives to child i itself.
C21_ReverseDirections ==
    \A n \in Placed :
        IsReverse(nodes[n].specified_style.flex_direction) =>
            LET main == MainAxis(nodes[n].specified_style.flex_direction)
                k == Len(nodes[n].children)
                fwd == ForwardPlacement(n)
            IN \A i \in 1..k : \A a \in Axes :
                  absolute_pos[nodes[n].children[i]][a] =
                      IF a = main THEN fwd[k + 1 - i][a] ELSE fwd[i][a]

\* calculate() returned Ok for a reverse container with two children of
\* different sizes, the first stored behind the second on the main axis and
\* the two at different cross-axis offsets
C21_Witness ==
    /\ pc = "done"
    /\ result = "Ok"
    /\ \E n \in Placed :
          /\ IsReverse(nodes[n].specified_style.flex_direction)
          /\ Len(nodes[n].children) = 2
          /\ KidDim(n, 1) # KidDim(n, 2)
          /\ LET main == MainAxis(nodes[n].specified_style.flex_direction)
                 first == absolute_pos[nodes[n].children[1]]
                 second == absolute_pos[nodes[n].children[2]]
             IN /\ first[main] > second[main]
                /\ \E a \in Axes \ {main} : first[a] # second[a]

\* the align-items value that governs cross axis a of container n
AlignOn(n, a) ==
    IF a = Cross1(MainAxis(nodes[n].specified_style.flex_direction))
    THEN nodes[n].specified_style.align_items.cross1
    ELSE nodes[n].specified_style.align_items.cross2

\* the cross axes of a main axis as the claim lists them
CrossPair(main) ==
    CASE main = "x" -> <<"y", "z">>
      [] main = "y" -> <<"x", "z">>
      [] main = "z" -> <<"x", "y">>

\* A stored offset is a u32; a wrapped one is held as v < 0 for 2^32 + v.  It is
\* the integer exact when it has not wrapped and is that number.
StoresExactly(stored, exact) == stored >= 0 /\ stored = exact

\* the offset of a child of extent child_extent on a cross axis of a container
\* of extent container_extent
AlignedOffset(align, container_extent, child_extent) ==
    CASE align = "FlexStart" -> 0
      [] align = "FlexEnd" -> container_extent - child_extent
      [] align = "Center" ->
           \* floor of the half, also below zero
           IF container_extent >= child_extent
           THEN (container_extent - child_extent) \div 2
           ELSE -((child_extent - container_extent + 1) \div 2)

\* C22: every placed child of a Flex container is stored, on each of the two
\* cross axes, at 0 for flex-start, at container - child for flex-end and at
\* floor((container - child) / 2) for center; the cross axes are (y,z), (x,z)
\* and (x,y) for the main axes x, y and z; align-items defaults to flex-start
\* on both.
C22_CrossAlignment ==
    /\ StyleDefault.align_items = AlignItems("FlexStart", "FlexStart")
    /\ \A n \in Placed :
          LET main == MainAxis(nodes[n].specified_style.flex_direction)
          IN /\ <<Cross1(main), Cross2(main)>> = CrossPair(main)
             /\ \A i \in 1..Len(nodes[n].children) : \A a \in Axes \ {main} :
                   StoresExactly(absolute_pos[nodes[n].children[i]][a],
                                 AlignedOffset(AlignOn(n, a), OwnDim(n)[a], KidDim(n, i)[a]))

(***************************************************************************)
(* Properties of calculate() call by call (checked under SpecWalk)          *)
(***************************************************************************)
SizePassNames == {"pass1", "pass2", "pass3"}

PassNumber(pass) ==
    CASE pass = "pass1" -> 1
      [] pass = "pass2" -> 2
      [] pass = "pass3" -> 3

RECURSIVE SizePasses(_)
\* the sizes and the error after the first k size passes, each taken over the
\* whole body subtree by the recursive definition of the pass
SizePasses(k) ==
    IF k = 0
    THEN [size |-> [n \in DOMAIN nodes |->
                      IF n = body_node
                      THEN SpaceSize(Length(from_m(BODY_SEED_M)), Length(from_m(BODY_SEED_M)),
                                     Length(from_m(BODY_SEED_M)))
                      ELSE StyleDefault.size],
          err |-> NoError]
    ELSE LET before == SizePasses(k - 1)
         IN IF before.err # NoError THEN before
            ELSE IF k = 2
            THEN calculate_size_by_child_recursive(nodes, before.size, body_node)
            ELSE calculate_size_by_parent_recursive(nodes, before.size, body_node)

NothingPlaced(pos, fcs) ==
    \A n \in DOMAIN nodes : pos[n] = Dim3(0, 0, 0) /\ fcs[n] = <<>>

\* C23: calculate() goes through the top-down, the bottom-up, the second
\* top-down and the position pass in that order; every call in progress
\* belongs to the pass calculate() is in; a size pass hands over to the next
\* pass only with the sizes of a complete traversal of the body subtree; when
\* a size pass fails, calculate() returns its error at once, no later pass
\* runs, and every stored position still is zero.
C23_PassOrder ==
    [][/\ pc' # pc =>
             \/ pc = "start" /\ pc' \in {"pass1", "done"}
             \/ pc \in SizePassNames \cup {"pos"} /\ pc' \in {NextPass(pc), "done"}
       /\ \A k \in 1..Len(stack') : stack'[k].fn = pc'
       /\ (pc \in SizePassNames /\ pc' = NextPass(pc)) =>
             /\ SizePasses(PassNumber(pc)).err = NoError
             /\ computed_size' = SizePasses(PassNumber(pc)).size
             /\ stack' = <<>>
       /\ (pc \in SizePassNames /\ pc' = "done") =>
             /\ result' # NoError
             /\ result' = SizePasses(PassNumber(pc)).err
             /\ stack' = <<>>
             /\ NothingPlaced(absolute_pos', flex_child_space')
       /\ pc # "pos" => NothingPlaced(absolute_pos, flex_child_space)
       /\ pc # "done"]_vars

\* the bottom-up pass failed on the second child after it had sized the first:
\* calculate() returned the error and no position was stored
C23_Witness ==
    /\ pc = "done"
    /\ result = InvalidStructure
    /\ NothingPlaced(absolute_pos, flex_child_space)
    /\ \E n \in BodyNodes :
          /\ Len(nodes[n].children) = 2
          /\ computed_size[nodes[n].children[1]] = CatalogueSize(nodes[n].children[1])
          /\ ~get_space_size(nodes[nodes[n].children[2]].text_content).ok

(***************************************************************************)
(* The body node in the top-down pass (checked under Spec)                  *)
(***************************************************************************)
\* the size calculate() seeds the body with
BodySeed ==
    SpaceSize(Length(from_m(BODY_SEED_M)), Length(from_m(BODY_SEED_M)),
              Length(from_m(BODY_SEED_M)))

\* C24: the top-down pass does not resolve the body against a parent: no
\* calculate() ends with 'Parent node not found', also when the body is the
\* root of the tree, and after Pass 1 the body still has its seeded size and
\* its children are resolved against that size.
C24_BodyNotResolved ==
    /\ result # ParentNotFound
    /\ (pc = "pass2" /\ body_node # 0) =>
          /\ computed_size[body_node] = BodySeed
          /\ \A k \in Kids(body_node) : \A a \in Axes :
                nodes[k].specified_style.size[a].tag = "Percentage" =>
                    computed_size[k][a] =
                        calculate_dimension_size(nodes[k].specified_style.size[a],
                                                 BodySeed[a])

\* the nodes of the body subtree whose specified display is Cube
CubeNodes == {n \in BodyNodes : nodes[n].specified_style.display = "Cube"}

\* the position pass has just been called on a Cube node
AtCube ==
    /\ stack # <<>>
    /\ top.fn = "pos"
    /\ top.at = "enter"
    /\ top.node \in CubeNodes

\* C25: when the position pass visits a node whose specified display is Cube,
\* calculate() is left at once without Ok; and calculate() never returns Ok
\* for a tree with a Cube node in the body subtree.
C25_CubeIsFatal ==
    [][/\ AtCube => (pc' = "done" /\ result' = NotYetImplemented /\ stack' = <<>>)
       /\ result' = "Ok" => CubeNodes = {}]_vars

\* calculate() was left in the position pass for a tree whose only Cube node
\* is a leaf Item that the size passes gave a Length on every axis
C25_Witness ==
    /\ pc = "done"
    /\ result = NotYetImplemented
    /\ \E n \in CubeNodes :
          /\ CubeNodes = {n}
          /\ nodes[n].node_type = "Item"
          /\ nodes[n].children = <<>>
          /\ all_length(computed_size[n])

(***************************************************************************)
(* The shape of the render tree (checked under SpecWalk)                    *)
(***************************************************************************)
\* the places (n, i) at which node c stands in a children list
PlacesOf(c) ==
    {p \in (DOMAIN nodes) \X (1..Len(nodes)) :
        p[2] <= Len(nodes[p[1]].children) /\ nodes[p[1]].children[p[2]] = c}

\* the tree of the render nodes: node 1 is the root made from the element
\* RenderTree::new was given
TreeShape ==
    /\ \A n \in DOMAIN nodes : \A i \in 1..Len(nodes[n].children) :
          nodes[nodes[n].children[i]].parent = n
    /\ nodes[1].parent = 0
    /\ PlacesOf(1) = {}
    /\ \A c \in DOMAIN nodes \ {1} : Cardinality(PlacesOf(c)) = 1
    /\ \A n \in DOMAIN nodes : \A i, j \in 1..Len(nodes[n].children) :
          i < j => nodes[n].children[i] < nodes[n].children[j]
    /\ \A n \in DOMAIN nodes :
          /\ DOMAIN nodes = DOMAIN elements
          /\ nodes[n].parent = elements[n].parent
          /\ nodes[n].tag_name = elements[n].name

\* C26: in every state from the construction on, during and after every pass
\* and after a failed one, each child's parent link is the node that lists it,
\* the root has no parent, every other node stands in exactly one children
\* list, children are in element order; and no step of calculate() changes
\* the nodes, their links, specified styles, types or names.
C26_TreeShape == []TreeShape /\ [][nodes' = nodes /\ elements' = elements]_vars

\* the bottom-up pass has failed in a tree three levels deep below the root,
\* with two children under one node
C26_Witness ==
    /\ pc = "done"
    /\ result = CubeSizeError
    /\ TreeShape
    /\ \E n \in DOMAIN nodes :
          /\ Len(nodes[n].children) = 2
          /\ nodes[n].parent # 0
          /\ nodes[nodes[n].parent].parent # 0

(***************************************************************************)
(* The children of a container along its main axis (checked under Spec)     *)
(***************************************************************************)
\* the main-axis interval [from, to) child i of n is stored at
MainInterval(n, i) ==
    LET main == MainAxis(nodes[n].specified_style.flex_direction)
        from == absolute_pos[nodes[n].children[i]][main]
    IN [from |-> from, to |-> from + KidDim(n, i)[main]]

\* the container n is at least as long on its main axis as its children together
HoldsItsChildren(n) ==
    LET main == MainAxis(nodes[n].specified_style.flex_direction)
    IN OwnDim(n)[main] >=
          TotalChildSize([i \in 1..Len(nodes[n].children) |-> KidDim(n, i)[main]], 0)

\* the children of n lie inside n and no two of them overlap, on the main axis
ChildrenApart(n) ==
    LET main == MainAxis(nodes[n].specified_style.flex_direction)
        k == Len(nodes[n].children)
    IN /\ \A i \in 1..k :
             MainInterval(n, i).from >= 0 /\ MainInterval(n, i).to <= OwnDim(n)[main]
       /\ \A i, j \in 1..k :
             i # j => \/ MainInterval(n, i).to <= MainInterval(n, j).from
                      \/ MainInterval(n, j).to <= MainInterval(n, i).from

\* C27: after calculate() returned Ok, in every container that is at least as
\* long on its main axis as its children together, the children's main-axis
\* intervals [position, position + size) lie inside [0, container length] and
\* are pairwise disjoint, whatever the justify-content and the direction.
C27_NoOverlap ==
    (pc = "done" /\ result = "Ok") =>
        \A n \in Placed : HoldsItsChildren(n) => ChildrenApart(n)

\* the cross-axis offset in saturating Length arithmetic
SaturatingOffset(align, container_extent, child_extent) ==
    CASE align = "FlexStart" -> 0
      [] align = "FlexEnd" -> LenSub(container_extent, child_extent)
      [] align = "Center" -> LenSub(container_extent, child_extent) \div 2

\* C28: the position pass never panics on container - child and never stores
\* a wrapped offset: every placed child is stored on each cross axis at the
\* offset of saturating arithmetic, which is 0 for flex-end and center when
\* the child is larger than the container on that axis.
C28_NoUnderflow ==
    /\ result # SubtractOverflow
    /\ \A n \in Placed :
          \A i \in 1..Len(nodes[n].children) :
              \A a \in Axes \ {MainAxis(nodes[n].specified_style.flex_direction)} :
                  StoresExactly(absolute_pos[nodes[n].children[i]][a],
                                SaturatingOffset(AlignOn(n, a), OwnDim(n)[a], KidDim(n, i)[a]))

(***************************************************************************)
(* The final sizes (checked under Spec)                                     *)
(***************************************************************************)
\* C29: after calculate() returned Ok, every Flex Space of the body subtree
\* whose specified size is Auto on all three axes has, on the axis of its
\* flex-direction, the sum of its children's final computed sizes and, on the
\* two other axes, the maximum of its children's final computed sizes.
C29_FinalSumMax ==
    (pc = "done" /\ result = "Ok") =>
        \A n \in BodyNodes :
            AutoFlexSpace(n) =>
                \A a \in Axes :
                    computed_size[n][a] =
                        IF a = MainAxis(nodes[n].specified_style.flex_direction)
                        THEN Length(SumOf(Kids(n), a))
                        ELSE Length(MaxOf(Kids(n), a))

(***************************************************************************)
(* The borrows of the node cells (checked under SpecWalk)                   *)
(***************************************************************************)
BorrowPanics == {AlreadyBorrowed, AlreadyMutablyBorrowed}

\* C30: no borrow() or borrow_mut() of calculate() panics, and no cell is ever
\* borrowed mutably while another borrow of it is alive: the only RefMut is
\* that of the node the innermost call works on; while it is alive the
\* top-down pass holds a Ref of the node's parent, and none of the node's
\* children is borrowed, so that the bottom-up and the position pass can
\* borrow each of them; between the passes nothing is borrowed.
C30_NoAliasing ==
    /\ result \notin BorrowPanics
    /\ \A n \in DOMAIN borrows :
          /\ ~(borrows[n].mut /\ borrows[n].shared > 0)
          /\ borrows[n].mut => (stack # <<>> /\ top.node = n /\ top.at = "held")
          /\ stack = <<>> => borrows[n] = NotBorrowed
    /\ (stack # <<>> /\ top.at = "held") =>
          /\ borrows[top.node].mut
          /\ top.fn \in {"pass1", "pass3"} => borrows[nodes[top.node].parent].shared >= 1
          /\ \A k \in Kids(top.node) : borrows[k] = NotBorrowed

\* the three size passes have run without a panic and the position pass holds,
\* mutably, a container two levels below the body that has children to borrow
C30_Witness ==
    /\ pc = "pos"
    /\ Len(stack) >= 3
    /\ top.at = "held"
    /\ borrows[top.node].mut
    /\ Kids(top.node) # {}
    /\ result \notin BorrowPanics

====
